---- MODULE Spec2Model ----
(***************************************************************************)
(* A model of the wikidata crate's decoding pipeline: the identifier       *)
(* grammar (src/src/ids.rs), the numeric and time primitives, the snak     *)
(* decoder and the entity decoder (src/src/entity.rs).                     *)
(*                                                                         *)
(* The decoders are pure functions.  Each specification draws one input    *)
(* from a bounded set in its initial state and has one action per          *)
(* function, which stores the function's result.                           *)
(*                                                                         *)
(* Conventions.  A Rust &str that the code parses is a sequence of         *)
(* one-character strings; a Rust string that is only matched against       *)
(* literals or copied is a TLA+ string.  Result::Ok(v) is <<"Ok", v>>,     *)
(* Result::Err(e) is <<"Err", e>> and a panic (an abort of the call) is    *)
(* <<"Panic">>.                                                            *)
(***************************************************************************)
EXTENDS Integers, Sequences, FiniteSets, TLC

VARIABLES
    input,   \* the argument of the call
    call,    \* the function that was called, "none" before the call
    result,  \* what the call returned
    shown    \* SpecId: the Display text of a parsed identifier

vars == <<input, call, result, shown>>

None == <<"None">>

Ok(v) == <<"Ok", v>>

Err(e) == <<"Err", e>>

Panic == <<"Panic">>

IsOk(r) == r[1] = "Ok"

IsErr(r) == r[1] = "Err"

IsErrOf(r, e) == r[1] = "Err" /\ r[2] = e

\* All sequences over S of length at most n.
SeqsUpTo(S, n) == UNION {[1..k -> S] : k \in 0..n}

\* s[i..] of Rust, for 1-based i: the suffix from position i on.
From(s, i) == SubSeq(s, i, Len(s))

(***************************************************************************)
(* Integer parsing and formatting of the standard library, as the code     *)
(* uses them: <u64 as FromStr>, <u16 as FromStr>, Display for integers.    *)
(***************************************************************************)
Digits == <<"0", "1", "2", "3", "4", "5", "6", "7", "8", "9">>

IsDigit(c) == \E i \in 1..10 : Digits[i] = c

DigitVal(c) == (CHOOSE i \in 1..10 : Digits[i] = c) - 1

AllDigits(s) == \A i \in 1..Len(s) : IsDigit(s[i])

RECURSIVE DecimalValue(_)
DecimalValue(s) ==
    IF s = <<>> THEN 0
    ELSE 10 * DecimalValue(SubSeq(s, 1, Len(s) - 1)) + DigitVal(s[Len(s)])

\* The largest value of u16, the width of a form or sense number.
U16Max == 65535

\* str::parse::<uN>(): an optional '+', then one or more digits, and the
\* value must fit the width (max).  The u64 calls pass max = -1, meaning
\* "no limit": every digit string within the model's lengths fits u64.
ParseUnsigned(s, max) ==
    IF s = <<>> THEN Err("Empty")
    ELSE LET digits == IF s[1] = "+" THEN From(s, 2) ELSE s
         IN  IF digits = <<>> \/ ~AllDigits(digits) THEN Err("InvalidDigit")
             ELSE IF max >= 0 /\ DecimalValue(digits) > max THEN Err("PosOverflow")
             ELSE Ok(DecimalValue(digits))

\* Display of an unsigned integer: its decimal digits, no sign and no
\* leading zeros.
RECURSIVE FormatUnsigned(_)
FormatUnsigned(n) ==
    IF n < 10 THEN <<Digits[n + 1]>>
    ELSE Append(FormatUnsigned(n \div 10), Digits[(n % 10) + 1])

(***************************************************************************)
(* src/src/ids.rs: the identifier kinds.                                   *)
(***************************************************************************)
Qid(n) == <<"Qid", n>>

Pid(n) == <<"Pid", n>>

Lid(n) == <<"Lid", n>>

Fid(l, n) == <<"Fid", l, n>>

Sid(l, n) == <<"Sid", l, n>>

\* id_def!(Qid, .., 'Q'), id_def!(Pid, .., 'P'), id_def!(Lid, .., 'L') and
\* lexeme_subid_def!(Fid, .., 'F'), lexeme_subid_def!(Sid, .., 'S').
Letter(kind) ==
    CASE kind = "Qid" -> "Q"
      [] kind = "Pid" -> "P"
      [] kind = "Lid" -> "L"
      [] kind = "Fid" -> "F"
      [] kind = "Sid" -> "S"

SingleKinds == {"Qid", "Pid", "Lid"}

SubKinds == {"Fid", "Sid"}

\* str::split(c): the segments between the occurrences of c, always at
\* least one segment.
RECURSIVE Split(_, _)
Split(s, c) ==
    IF \A i \in 1..Len(s) : s[i] # c THEN <<s>>
    ELSE LET i == CHOOSE j \in 1..Len(s) :
                      s[j] = c /\ \A k \in 1..(j - 1) : s[k] # c
         IN  <<SubSeq(s, 1, i - 1)>> \o Split(From(s, i + 1), c)

\* id_def!: FromStr::from_str
IdFromStr(kind, x) ==
    IF x = <<>> \/ x[1] # Letter(kind) THEN Err("InvalidPrefix")
    ELSE LET num == ParseUnsigned(From(x, 2), -1)
         IN  IF IsOk(num) THEN Ok(<<kind, num[2]>>)
             ELSE Err("UnparseableNumber")

\* A variant of lexeme_subid_def!'s from_str that counts the parts before it
\* looks at the second part's letter.
SubIdFromStrCountFirst(kind, x) ==
    IF x = <<>> \/ x[1] # "L" THEN Err("InvalidPrefix")
    ELSE LET parts == Split(From(x, 2), "-")
             lid == ParseUnsigned(parts[1], -1)
         IN  IF IsErr(lid) THEN Err("UnparseableNumber")
             ELSE IF Len(parts) < 2 THEN Err("TooFewParts")
             ELSE IF Len(parts) > 2 THEN Err("TooManyParts")
             ELSE LET part2 == parts[2]
                      id == ParseUnsigned(From(part2, 2), U16Max)
                  IN  IF part2 = <<>> \/ part2[1] # Letter(kind)
                          THEN Err("InvalidPrefix")
                      ELSE IF IsErr(id) THEN Err("UnparseableNumber")
                      ELSE Ok(<<kind, Lid(lid[2]), id[2]>>)

\* lexeme_subid_def!: FromStr::from_str
SubIdFromStr(kind, x) ==
    IF x = <<>> \/ x[1] # "L" THEN Err("InvalidPrefix")
    ELSE LET parts == Split(From(x, 2), "-")
             lid == ParseUnsigned(parts[1], -1)
         IN  IF IsErr(lid) THEN Err("UnparseableNumber")
             ELSE IF Len(parts) < 2 THEN Err("TooFewParts")
             ELSE LET part2 == parts[2]
                      id == ParseUnsigned(From(part2, 2), U16Max)
                  IN  IF part2 = <<>> \/ part2[1] # Letter(kind)
                          THEN Err("InvalidPrefix")
                      ELSE IF IsErr(id) THEN Err("UnparseableNumber")
                      ELSE IF Len(parts) > 2 THEN Err("TooManyParts")
                      ELSE Ok(<<kind, Lid(lid[2]), id[2]>>)

FromStr(kind, x) ==
    IF kind \in SingleKinds THEN IdFromStr(kind, x) ELSE SubIdFromStr(kind, x)

\* id_def!: Display::fmt
IdDisplay(id) == <<Letter(id[1])>> \o FormatUnsigned(id[2])

\* lexeme_subid_def!: Display::fmt
SubIdDisplay(id) ==
    IdDisplay(id[2]) \o <<"-", Letter(id[1])>> \o FormatUnsigned(id[3])

Display(id) ==
    IF id[1] \in SingleKinds THEN IdDisplay(id) ELSE SubIdDisplay(id)

(***************************************************************************)
(* SpecId: one identifier string is parsed by one of the five parsers,     *)
(* and a parsed identifier is then formatted.                              *)
(***************************************************************************)
\* The characters of identifier strings: the five letters, the dash, two
\* digits and the sign the integer parser accepts.
IdChars == {"Q", "P", "L", "F", "S", "-", "0", "1", "+"}

\* The characters after the leading 'L' of the longer form/sense strings.
SubIdChars == {"L", "F", "S", "-", "0", "1", "+"}

MaxIdLen == 3

MaxSubIdTail == 5

IdInputs ==
    SeqsUpTo(IdChars, MaxIdLen)
        \cup {<<"L">> \o t : t \in SeqsUpTo(SubIdChars, MaxSubIdTail)}

InitId ==
    /\ input \in IdInputs
    /\ call = "none"
    /\ result = None
    /\ shown = None

\* kind::from_str(input)
IdParse(kind) ==
    /\ call = "none"
    /\ call' = kind
    /\ result' = FromStr(kind, input)
    /\ UNCHANGED <<input, shown>>

\* format!("{}", id) of the identifier that was parsed
IdFormat ==
    /\ call \in SingleKinds \cup SubKinds
    /\ IsOk(result)
    /\ shown = None
    /\ shown' = Display(result[2])
    /\ UNCHANGED <<input, call, result>>

NextId ==
    \/ \E kind \in SingleKinds \cup SubKinds : IdParse(kind)
    \/ IdFormat

SpecId == InitId /\ [][NextId]_vars

(***************************************************************************)
(* serde_json::Value.  Null is <<"null">>, a number <<"num", x>>, a string *)
(* <<"str", s>>, an array <<"arr", elements>> and an object <<"obj", m>>   *)
(* with m the sequence of its <<key, value>> entries in iteration order,   *)
(* keys distinct.  The keys the code names ("snaktype", "claims", ...) are *)
(* TLA+ strings; the keys it parses (property ids) are character           *)
(* sequences.                                                              *)
(***************************************************************************)
JNull == <<"null">>

JNum(x) == <<"num", x>>

JBool(b) == <<"bool", b>>

JStr(s) == <<"str", s>>

JArr(elems) == <<"arr", elems>>

JObj(entries) == <<"obj", entries>>

\* Builds an object from candidate entries, leaving out those whose value
\* is None (the key is absent from the document).
ObjOf(entries) == JObj(SelectSeq(entries, LAMBDA e : e[2] # None))

IsStr(v) == v[1] = "str"

IsArr(v) == v[1] = "arr"

IsObj(v) == v[1] = "obj"

HasKey(v, key) == IsObj(v) /\ \E i \in 1..Len(v[2]) : v[2][i][1] = key

\* Value::get(key): the entry's value, None when v is no object or has no
\* such key.
Get(v, key) ==
    IF HasKey(v, key)
        THEN v[2][CHOOSE i \in 1..Len(v[2]) : v[2][i][1] = key][2]
    ELSE None

\* fn take_prop
take_prop(key, claim) ==
    IF Get(claim, key) = None THEN JNull ELSE Get(claim, key)

\* fn get_json_string
get_json_string(json) ==
    IF IsStr(json) THEN Ok(json[2]) ELSE Err("ExpectedString")

(***************************************************************************)
(* f64.  The value m / 10^e is the pair <<m, e>>, kept normalised (e = 0   *)
(* or m not a multiple of 10), so that equal values are equal pairs.       *)
(***************************************************************************)
RECURSIVE Pow10(_)
Pow10(e) == IF e = 0 THEN 1 ELSE 10 * Pow10(e - 1)

RECURSIVE F64(_, _)
F64(m, e) == IF e > 0 /\ m % 10 = 0 THEN F64(m \div 10, e - 1) ELSE <<m, e>>

\* The values of f64 that are no numbers have e = -1: the infinities are
\* <<1, -1>> and <<-1, -1>>, NaN is <<0, -1>>.
Infinity(neg) == <<IF neg THEN -1 ELSE 1, -1>>

NaN == <<0, -1>>

\* `x as u8`: the fraction is dropped (towards zero) and the value is
\* clamped to 0..=255; NaN gives 0.
U8Max == 255

AsU8(x) ==
    IF x[1] <= 0 THEN 0
    ELSE IF x[2] < 0 THEN U8Max
    ELSE IF x[1] \div Pow10(x[2]) > U8Max THEN U8Max
    ELSE x[1] \div Pow10(x[2])

\* <f64 as FromStr>::from_str on the strings of the model, which hold
\* signs, digits, '.', the words "inf" and "NaN" (one symbol each) and
\* characters that are in no number: an optional sign, then one of the two
\* words, or digits with at most one '.', at least one digit in all.
ParseF64(s) ==
    IF s = <<>> THEN Err("Empty")
    ELSE LET neg == s[1] = "-"
             body == IF s[1] \in {"+", "-"} THEN From(s, 2) ELSE s
             parts == Split(body, ".")
             whole == parts[1]
             frac == IF Len(parts) = 2 THEN parts[2] ELSE <<>>
         IN  IF body = <<"inf">> THEN Ok(Infinity(neg))
             ELSE IF body = <<"NaN">> THEN Ok(NaN)
             ELSE IF \/ Len(parts) > 2
                \/ ~AllDigits(whole) \/ ~AllDigits(frac)
                \/ (whole = <<>> /\ frac = <<>>)
                 THEN Err("Invalid")
             ELSE LET m == DecimalValue(whole) * Pow10(Len(frac))
                               + DecimalValue(frac)
                  IN  Ok(F64(IF neg THEN -m ELSE m, Len(frac)))

\* fn parse_wb_number
parse_wb_number(num) ==
    IF num[1] = "num" THEN Ok(num[2])
    ELSE IF IsStr(num)
        THEN LET s == IF num[2] # <<>> /\ num[2][1] = "+"
                          THEN From(num[2], 2) ELSE num[2]
             IN  IF IsOk(ParseF64(s)) THEN ParseF64(s) ELSE Err("FloatParse")
    ELSE Err("ExpectedNumberString")

\* The text "http://www.wikidata.org/entity/Q", one symbol of the strings
\* that hold IRIs.
EntityPrefix == "http://www.wikidata.org/entity/Q"

\* fn try_get_as_qid
try_get_as_qid(datavalue) ==
    IF ~IsStr(datavalue) THEN Err("ExpectedUriString")
    ELSE LET parts == Split(datavalue[2], EntityPrefix)
         IN  IF Len(parts) < 2 THEN Err("ExpectedQidString")
             ELSE IF IsOk(ParseUnsigned(parts[2], -1))
                 THEN Ok(Qid(ParseUnsigned(parts[2], -1)[2]))
             ELSE Err("FloatParse")

(***************************************************************************)
(* fn parse_wb_time and what it uses of the standard library and chrono.   *)
(***************************************************************************)
\* The characters of the model's strings that take two bytes in UTF-8; a
\* byte index into a string panics when it falls inside one of them.
TwoByteChars == {"e'"}

ByteLen(c) == IF c \in TwoByteChars THEN 2 ELSE 1

\* str::parse::<i32>(): an optional '+' or '-', then one or more digits.
\* Every digit string within the model's lengths fits i32.
ParseSigned(s) ==
    IF s = <<>> THEN Err("Empty")
    ELSE LET digits == IF s[1] \in {"+", "-"} THEN From(s, 2) ELSE s
         IN  IF digits = <<>> \/ ~AllDigits(digits) THEN Err("InvalidDigit")
             ELSE Ok(IF s[1] = "-" THEN -DecimalValue(digits)
                     ELSE DecimalValue(digits))

\* The years chrono's NaiveDate can hold.
ChronoMinYear == -262144

ChronoMaxYear == 262143

IsLeapYear(y) == (y % 4 = 0 /\ y % 100 # 0) \/ y % 400 = 0

DaysInMonth(y, m) ==
    IF m = 2 THEN (IF IsLeapYear(y) THEN 29 ELSE 28)
    ELSE IF m \in {4, 6, 9, 11} THEN 30 ELSE 31

\* Utc.ymd_opt(y, m, d) is LocalResult::Single (UTC is never ambiguous),
\* or LocalResult::None when there is no such date.
ymd_opt(y, m, d) ==
    IF /\ ChronoMinYear <= y /\ y <= ChronoMaxYear
       /\ 1 <= m /\ m <= 12
       /\ 1 <= d /\ d <= DaysInMonth(y, m)
        THEN Ok(<<y, m, d>>)
    ELSE None

\* A variant of the month and day fields that keeps a field of 0.
MonthOrDayKeepZero(dash_parts, i) ==
    IF i > Len(dash_parts) THEN 1
    ELSE LET x == ParseUnsigned(dash_parts[i], -1)
         IN  IF IsErr(x) THEN 1 ELSE x[2]

\* A month or day field of parse_wb_time: `match dash_parts.get(i)`, with
\* Some(0), an unparsable field and a missing field all None, which
\* unwrap_or(1) turns into 1.
MonthOrDay(dash_parts, i) ==
    IF i > Len(dash_parts) THEN 1
    ELSE LET x == ParseUnsigned(dash_parts[i], -1)
         IN  IF IsErr(x) \/ x[2] = 0 THEN 1 ELSE x[2]

\* s[0..2]: the first two bytes of s as a string; a panic when s is
\* shorter or when byte 2 is inside a character.
FirstTwoBytes(s) ==
    IF s = <<>> THEN Panic
    ELSE IF ByteLen(s[1]) = 2 THEN Ok(<<s[1]>>)
    ELSE IF Len(s) < 2 \/ ByteLen(s[2]) = 2 THEN Panic
    ELSE Ok(<<s[1], s[2]>>)

\* The `if time_parts.len() == 2` block of parse_wb_time and the final
\* date.and_hms(hour, min, sec), which panics on a time of day that does
\* not exist.
TimeOfDay(date, time_parts) ==
    IF Len(time_parts) # 2 THEN Ok(date \o <<0, 0, 0>>)
    ELSE LET colon_parts == Split(time_parts[2], ":")
             hour == ParseUnsigned(colon_parts[1], -1)
         IN  IF IsErr(hour) THEN Err("FloatParse")
             ELSE IF Len(colon_parts) < 2 THEN Err("MissingMinute")
             ELSE IF IsErr(ParseUnsigned(colon_parts[2], -1))
                 THEN Err("FloatParse")
             ELSE IF Len(colon_parts) < 3 THEN Err("MissingSecond")
             ELSE IF FirstTwoBytes(colon_parts[3]) = Panic THEN Panic
             ELSE LET minute == ParseUnsigned(colon_parts[2], -1)
                      sec == ParseUnsigned(FirstTwoBytes(colon_parts[3])[2], -1)
                  IN  IF IsErr(sec) THEN Err("FloatParse")
                      ELSE IF hour[2] >= 24 \/ minute[2] >= 60 \/ sec[2] >= 60
                          THEN Panic
                      ELSE Ok(date \o <<hour[2], minute[2], sec[2]>>)

\* fn parse_wb_time: Ok(<<year, month, day, hour, minute, second>>).
parse_wb_time(time) ==
    IF time = <<>> THEN Err("TimeEmpty")
    ELSE IF ByteLen(time[1]) # 1 THEN Panic
    ELSE LET is_ce == time[1] = "+"
             time_parts == Split(From(time, 2), "T")
             dash_parts == Split(time_parts[1], "-")
             parsed == ParseSigned(dash_parts[1])
         IN  IF IsErr(parsed) THEN Err("NoDateYear")
             ELSE LET year == parsed[2] * (IF is_ce THEN 1 ELSE -1)
                      maybe_date == ymd_opt(year, MonthOrDay(dash_parts, 2),
                                            MonthOrDay(dash_parts, 3))
                  IN  IF maybe_date = None THEN Err("NoDateMatched")
                      ELSE TimeOfDay(maybe_date[2], time_parts)

(***************************************************************************)
(* ClaimValueData and ClaimValueData::parse_snak.  A value is the tuple of *)
(* its variant's name and fields; Option fields are None or <<"Some", x>>. *)
(***************************************************************************)
Some(x) == <<"Some", x>>

NoValue == <<"NoValue">>

UnknownValue == <<"UnknownValue">>

\* Result::ok()
OkOpt(r) == IF IsOk(r) THEN Some(r[2]) ELSE None

\* The `datatype` match of the "string" arm without its "url" arm.
StringVariantWithoutUrl(datatype) ==
    CASE datatype = "string" -> "String"
      [] datatype = "commonsMedia" -> "CommonsMedia"
      [] datatype = "external-id" -> "ExternalID"
      [] datatype = "math" -> "MathExpr"
      [] datatype = "geo-shape" -> "GeoShape"
      [] datatype = "musical-notation" -> "MusicNotation"
      [] datatype = "tabular-data" -> "TabularData"
      [] OTHER -> "none"

\* The variants of a "string" datavalue, by `datatype`.
StringVariant(datatype) ==
    CASE datatype = "string" -> "String"
      [] datatype = "commonsMedia" -> "CommonsMedia"
      [] datatype = "external-id" -> "ExternalID"
      [] datatype = "math" -> "MathExpr"
      [] datatype = "geo-shape" -> "GeoShape"
      [] datatype = "musical-notation" -> "MusicNotation"
      [] datatype = "tabular-data" -> "TabularData"
      [] datatype = "url" -> "Url"
      [] OTHER -> "none"

\* The "string" arm of parse_snak.
SnakString(datatype, value) ==
    IF ~IsStr(value) THEN Err("ExpectedStringDatatype")
    ELSE IF StringVariant(datatype) = "none" THEN Err("InvalidDatatype")
    ELSE Ok(<<StringVariant(datatype), value[2]>>)

\* A variant of the number parse of the 'Q', 'P' and 'L' arms that takes
\* digits only, no sign.
SnakSingleIdDigitsOnly(variant, kind, id) ==
    IF From(id, 2) # <<>> /\ AllDigits(From(id, 2))
        THEN Ok(<<variant, <<kind, DecimalValue(From(id, 2))>>>>)
    ELSE Err("BadId")

\* `id[1..].parse().map_err(|_| EntityError::BadId)?` wrapped in a variant.
SnakSingleId(variant, kind, id) ==
    IF IsOk(ParseUnsigned(From(id, 2), -1))
        THEN Ok(<<variant, <<kind, ParseUnsigned(From(id, 2), -1)[2]>>>>)
    ELSE Err("BadId")

\* The 'F' and 'S' arms of the lexeme case: Form(Fid(Lid(..), ..)).
SnakSubId(variant, kind, parts) ==
    LET lid == ParseUnsigned(From(parts[1], 2), -1)
        num == ParseUnsigned(From(parts[2], 2), U16Max)
    IN  IF IsErr(lid) \/ IsErr(num) THEN Err("BadId")
        ELSE Ok(<<variant, <<kind, Lid(lid[2]), num[2]>>>>)

\* The "wikibase-entityid" arm of parse_snak.
SnakEntityId(value) ==
    LET got == get_json_string(take_prop("id", value))
    IN  IF IsErr(got) THEN got
        ELSE LET id == got[2]
             IN  IF id = <<>> THEN Err("BadId")
                 ELSE IF id[1] = "Q" THEN SnakSingleId("Item", "Qid", id)
                 ELSE IF id[1] = "P" THEN SnakSingleId("Property", "Pid", id)
                 ELSE IF id[1] = "L"
                     THEN LET parts == Split(id, "-")
                          IN  IF Len(parts) = 1
                                  THEN SnakSingleId("Lexeme", "Lid", id)
                              ELSE IF Len(parts) # 2 \/ parts[2] = <<>>
                                  THEN Err("BadId")
                              ELSE IF parts[2][1] = "F"
                                  THEN SnakSubId("Form", "Fid", parts)
                              ELSE IF parts[2][1] = "S"
                                  THEN SnakSubId("Sense", "Sid", parts)
                              ELSE Err("BadId")
                 ELSE Err("BadId")

\* The "globecoordinate" arm of parse_snak.
SnakGlobeCoordinate(value) ==
    LET lat == parse_wb_number(take_prop("latitude", value))
        lon == parse_wb_number(take_prop("longitude", value))
        precision == parse_wb_number(take_prop("precision", value))
        globe == try_get_as_qid(take_prop("globe", value))
    IN  IF IsErr(lat) THEN lat
        ELSE IF IsErr(lon) THEN lon
        ELSE IF IsErr(globe) THEN globe
        ELSE Ok(<<"GlobeCoordinate", lat[2], lon[2],
                  IF IsOk(precision) THEN precision[2] ELSE F64(1, 0),
                  globe[2]>>)

\* A variant of the "quantity" arm in which a bound that cannot be parsed
\* fails the snak.
SnakQuantityStrictBounds(value) ==
    LET amount == parse_wb_number(take_prop("amount", value))
        lower == parse_wb_number(take_prop("lowerBound", value))
        upper == parse_wb_number(take_prop("upperBound", value))
    IN  IF IsErr(amount) THEN amount
        ELSE IF IsErr(lower) THEN lower
        ELSE IF IsErr(upper) THEN upper
        ELSE Ok(<<"Quantity", amount[2], Some(lower[2]), Some(upper[2]),
                  OkOpt(try_get_as_qid(take_prop("unit", value)))>>)

\* The "quantity" arm of parse_snak:
\* <<"Quantity", amount, lower_bound, upper_bound, unit>>.
SnakQuantity(value) ==
    LET amount == parse_wb_number(take_prop("amount", value))
    IN  IF IsErr(amount) THEN amount
        ELSE Ok(<<"Quantity", amount[2],
                  OkOpt(parse_wb_number(take_prop("lowerBound", value))),
                  OkOpt(parse_wb_number(take_prop("upperBound", value))),
                  OkOpt(try_get_as_qid(take_prop("unit", value)))>>)

\* A variant of the "time" arm that reports a time string it cannot parse
\* instead of falling back to UnknownValue.
SnakTimeNoFallback(value) ==
    LET text == get_json_string(take_prop("time", value))
    IN  IF IsErr(text) THEN text
        ELSE LET parsed == parse_wb_time(text[2])
                 precision == parse_wb_number(take_prop("precision", value))
             IN  IF parsed = Panic THEN Panic
                 ELSE IF IsErr(parsed) THEN parsed
                 ELSE IF IsErr(precision) THEN Err("InvalidPrecision")
                 ELSE Ok(<<"DateTime", parsed[2], AsU8(precision[2])>>)

\* A variant of the "time" arm that takes a missing or unparsable precision
\* as 0.
SnakTimeDefaultPrecision(value) ==
    LET text == get_json_string(take_prop("time", value))
    IN  IF IsErr(text) THEN text
        ELSE LET parsed == parse_wb_time(text[2])
                 precision == parse_wb_number(take_prop("precision", value))
             IN  IF parsed = Panic THEN Panic
                 ELSE IF IsErr(parsed) THEN Ok(UnknownValue)
                 ELSE IF IsErr(precision) THEN Ok(<<"DateTime", parsed[2], 0>>)
                 ELSE Ok(<<"DateTime", parsed[2], AsU8(precision[2])>>)

\* The "time" arm of parse_snak: <<"DateTime", date_time, precision>>.
SnakTime(value) ==
    LET text == get_json_string(take_prop("time", value))
    IN  IF IsErr(text) THEN text
        ELSE LET parsed == parse_wb_time(text[2])
                 precision == parse_wb_number(take_prop("precision", value))
             IN  IF parsed = Panic THEN Panic
                 ELSE IF IsErr(parsed) THEN Ok(UnknownValue)
                 ELSE IF IsErr(precision) THEN Err("InvalidPrecision")
                 ELSE Ok(<<"DateTime", parsed[2], AsU8(precision[2])>>)

\* The "monolingualtext" arm of parse_snak.
SnakMonolingualText(value) ==
    LET text == get_json_string(take_prop("text", value))
        language == get_json_string(take_prop("language", value))
    IN  IF IsErr(text) THEN text
        ELSE IF IsErr(language) THEN language
        ELSE Ok(<<"MonolingualText", text[2], language[2]>>)

\* A variant of that part of parse_snak which takes a datavalue of an
\* unknown type to be an unknown value.
SnakValueUnknownType(datatype, datavalue) ==
    LET type == take_prop("type", datavalue)
        value == take_prop("value", datavalue)
    IN  IF ~IsStr(type) THEN Err("InvalidSnaktype")
        ELSE CASE type[2] = "string" -> SnakString(datatype, value)
               [] type[2] = "wikibase-entityid" -> SnakEntityId(value)
               [] type[2] = "globecoordinate" -> SnakGlobeCoordinate(value)
               [] type[2] = "quantity" -> SnakQuantity(value)
               [] type[2] = "time" -> SnakTime(value)
               [] type[2] = "monolingualtext" -> SnakMonolingualText(value)
               [] OTHER -> Ok(UnknownValue)

\* The part of parse_snak after the snaktype is known to be "value".
SnakValue(datatype, datavalue) ==
    LET type == take_prop("type", datavalue)
        value == take_prop("value", datavalue)
    IN  IF ~IsStr(type) THEN Err("InvalidSnaktype")
        ELSE CASE type[2] = "string" -> SnakString(datatype, value)
               [] type[2] = "wikibase-entityid" -> SnakEntityId(value)
               [] type[2] = "globecoordinate" -> SnakGlobeCoordinate(value)
               [] type[2] = "quantity" -> SnakQuantity(value)
               [] type[2] = "time" -> SnakTime(value)
               [] type[2] = "monolingualtext" -> SnakMonolingualText(value)
               [] OTHER -> Err("UnknownDatatype")

\* ClaimValueData::parse_snak
parse_snak(snak) ==
    LET datavalue == take_prop("datavalue", snak)
        datatype == get_json_string(take_prop("datatype", snak))
        snaktype == get_json_string(take_prop("snaktype", snak))
    IN  IF IsErr(datatype) THEN datatype
        ELSE IF IsErr(snaktype) THEN snaktype
        ELSE IF snaktype[2] = "somevalue" THEN Ok(UnknownValue)
        ELSE IF snaktype[2] = "novalue" THEN Ok(NoValue)
        ELSE IF snaktype[2] # "value" THEN Err("InvalidSnaktype")
        ELSE SnakValue(datatype[2], datavalue)

(***************************************************************************)
(* Entity::from_json.  A loop of the code that returns at its first error  *)
(* is the sequence of the results of its iterations, of which Collect      *)
(* takes the first that is not Ok (an error or a panic), or all the        *)
(* values.  BTreeMaps are sets of <<key, value>> pairs; structs are        *)
(* records.                                                                *)
(***************************************************************************)
Collect(rs) ==
    LET all == rs \o <<>>
        failed == {i \in 1..Len(all) : ~IsOk(all[i])}
    IN  IF failed # {}
            THEN all[CHOOSE i \in failed : \A j \in failed : i <= j]
        ELSE Ok([i \in 1..Len(all) |-> all[i][2]] \o <<>>)

RECURSIVE Flatten(_)
Flatten(seqs) ==
    IF seqs = <<>> THEN <<>> ELSE Head(seqs) \o Flatten(Tail(seqs))

\* Collect for loops that push several values per iteration.
CollectAll(rs) ==
    LET all == Collect(rs)
    IN  IF IsOk(all) THEN Ok(Flatten(all[2])) ELSE all

\* impl FromStr for WikiId: the parser of the entity's own id, by the
\* letter of the three kinds an entity can have.
WikiIdFromStr(x) ==
    IF x = <<>> THEN Err("InvalidPrefix")
    ELSE IF x[1] = "Q" THEN IdFromStr("Qid", x)
    ELSE IF x[1] = "P" THEN IdFromStr("Pid", x)
    ELSE IF x[1] = "L" THEN IdFromStr("Lid", x)
    ELSE Err("InvalidPrefix")

\* A variant of the ranks without "deprecated".
RankFromStrWithoutDeprecated(x) ==
    IF x = "normal" THEN Ok("Normal")
    ELSE IF x = "preferred" THEN Ok("Preferred")
    ELSE Err("UnknownRank")

\* impl FromStr for Rank
RankFromStr(x) ==
    IF x = "normal" THEN Ok("Normal")
    ELSE IF x = "deprecated" THEN Ok("Deprecated")
    ELSE IF x = "preferred" THEN Ok("Preferred")
    ELSE Err("UnknownRank")

\* macro text_keyval! of from_json: the labels or the descriptions.
text_keyval(json, key) ==
    LET json_map == Get(json, key)
        Entry(e) ==
            IF ~IsObj(e[2]) THEN Err("ExpectedObject")
            ELSE IF Get(e[2], "value") = None THEN Err("ExpectedLangString")
            ELSE IF ~IsStr(Get(e[2], "value"))
                THEN Err("ExpectedKeyvalTextString")
            ELSE Ok(<<e[1], Get(e[2], "value")[2]>>)
    IN  IF json_map = None THEN Ok({})
        ELSE IF ~IsObj(json_map) THEN Err("ExpectedObject")
        ELSE LET all == Collect([i \in 1..Len(json_map[2]) |->
                                    Entry(json_map[2][i])])
             IN  IF IsOk(all) THEN Ok({all[2][i] : i \in 1..Len(all[2])})
                 ELSE all

\* A variant of the aliases that fails on an alias without a string
\* `value`, as text_keyval! does on a label.
AliasesStrict(json) ==
    LET json_map == Get(json, "aliases")
        Entry(e) ==
            IF ~IsArr(e[2]) THEN Err("ExpectedAliasArray")
            ELSE IF \E i \in 1..Len(e[2][2]) : Get(e[2][2][i], "value") = None
                THEN Err("ExpectedTextValue")
            ELSE IF \E i \in 1..Len(e[2][2]) : ~IsStr(Get(e[2][2][i], "value"))
                THEN Err("ExpectedAliasString")
            ELSE Ok(<<e[1], [i \in 1..Len(e[2][2]) |->
                                Get(e[2][2][i], "value")[2]]>>)
    IN  IF json_map = None THEN Ok({})
        ELSE IF ~IsObj(json_map) THEN Err("ExpectedObject")
        ELSE LET all == Collect([i \in 1..Len(json_map[2]) |->
                                    Entry(json_map[2][i])])
             IN  IF IsOk(all) THEN Ok({all[2][i] : i \in 1..Len(all[2])})
                 ELSE all

\* The aliases of from_json: an alias without a string `value` is left out.
Aliases(json) ==
    LET json_map == Get(json, "aliases")
        Kept(list) ==
            SelectSeq(list, LAMBDA a : IsStr(Get(a, "value")))
        Entry(e) ==
            IF ~IsArr(e[2]) THEN Err("ExpectedAliasArray")
            ELSE Ok(<<e[1], [i \in 1..Len(Kept(e[2][2])) |->
                                Get(Kept(e[2][2])[i], "value")[2]]>>)
    IN  IF json_map = None THEN Ok({})
        ELSE IF ~IsObj(json_map) THEN Err("ExpectedObject")
        ELSE LET all == Collect([i \in 1..Len(json_map[2]) |->
                                    Entry(json_map[2][i])])
             IN  IF IsOk(all) THEN Ok({all[2][i] : i \in 1..Len(all[2])})
                 ELSE all

\* The entity type of from_json.
EntityTypeOf(json) ==
    LET type == Get(json, "type")
    IN  IF type = JStr("item") THEN Ok("Entity")
        ELSE IF type = JStr("property") THEN Ok("Property")
        ELSE IF type = JStr("lexeme") THEN Ok("Lexeme")
        ELSE Err("NoEntityType")

\* The pair (pid.map_err(|_| BadId)?, data?) of two results.
PidWith(pid, data) ==
    IF IsErr(pid) THEN Err("BadId")
    ELSE IF ~IsOk(data) THEN data
    ELSE Ok(<<pid[2], data[2]>>)

\* One pushed pair of a reference group: (Pid::from_str(pid)?,
\* parse_snak(subsnak)?).
ReferenceSnak(pid, subsnak) ==
    PidWith(IdFromStr("Pid", pid), parse_snak(subsnak))

\* A variant of that iteration that takes a key `snaks` does not hold as a
\* property without snaks.
ReferenceSnaksOfSkippingAbsent(snaks, pid) ==
    IF ~IsStr(pid) THEN Err("ExpectedPidString")
    ELSE IF Get(snaks, pid[2]) = None THEN Ok(<<>>)
    ELSE IF ~IsArr(Get(snaks, pid[2])) THEN Err("ExpectedReferenceArray")
    ELSE LET list == Get(snaks, pid[2])[2]
         IN  Collect([i \in 1..Len(list) |-> ReferenceSnak(pid[2], list[i])])

\* One iteration of `for pid in group.get("snaks-order")`.
ReferenceSnaksOf(snaks, pid) ==
    IF ~IsStr(pid) THEN Err("ExpectedPidString")
    ELSE IF Get(snaks, pid[2]) = None THEN Err("SnaksOrderIncludesNonSnak")
    ELSE IF ~IsArr(Get(snaks, pid[2])) THEN Err("ExpectedReferenceArray")
    ELSE LET list == Get(snaks, pid[2])[2]
         IN  Collect([i \in 1..Len(list) |-> ReferenceSnak(pid[2], list[i])])

\* references.push(ReferenceGroup { claims, hash }) of the claims the
\* loop over `snaks-order` gave.
ReferenceGroupOf(claims, hash) ==
    IF ~IsOk(claims) THEN claims
    ELSE IF hash = None THEN Err("NoHash")
    ELSE IF ~IsStr(hash) THEN Err("ExpectedHashString")
    ELSE Ok([claims |-> claims[2], hash |-> hash[2]])

\* One iteration of `for group in ref_groups`.
ReferenceGroup(group) ==
    LET snaks == Get(group, "snaks")
        order == Get(group, "snaks-order")
    IN  IF snaks = None THEN Err("NoReferenceSnaks")
        ELSE IF ~IsObj(snaks) THEN Err("ExpectedObject")
        ELSE IF ~IsArr(order) THEN Err("NoSnakOrder")
        ELSE ReferenceGroupOf(
                 CollectAll([i \in 1..Len(order[2]) |->
                                ReferenceSnaksOf(snaks, order[2][i])]),
                 Get(group, "hash"))

\* `let references = ...` of the claim loop.
References(claim) ==
    LET ref_groups == Get(claim, "references")
    IN  IF ~IsArr(ref_groups) THEN Ok(<<>>)
        ELSE Collect([i \in 1..Len(ref_groups[2]) |->
                         ReferenceGroup(ref_groups[2][i])])

\* One iteration of `for pid in order` of the qualifiers.
QualifiersOf(qualifiers_json, pid) ==
    IF ~IsStr(pid) THEN Err("NoId")
    ELSE IF IsErr(IdFromStr("Pid", pid[2])) THEN Err("BadId")
    ELSE IF ~IsArr(Get(qualifiers_json, pid[2]))
        THEN Err("QualiferOrderNamesNonQualifier")
    ELSE LET qual_list == Get(qualifiers_json, pid[2])[2]
         IN  Collect([i \in 1..Len(qual_list) |->
                         PidWith(IdFromStr("Pid", pid[2]),
                                 parse_snak(qual_list[i]))])

\* A variant of the qualifiers loop that walks the keys of `qualifiers` in
\* the map's own order instead of the entries of `qualifiers-order`.
QualifiersInKeyOrder(claim) ==
    LET order == Get(claim, "qualifiers-order")
        qualifiers_json == Get(claim, "qualifiers")
    IN  IF ~IsArr(order) THEN Ok(<<>>)
        ELSE IF qualifiers_json = None THEN Err("QualifiersOrderButNoObject")
        ELSE IF ~IsObj(qualifiers_json) THEN Err("ExpectedObject")
        ELSE CollectAll([i \in 1..Len(qualifiers_json[2]) |->
                            QualifiersOf(qualifiers_json,
                                         JStr(qualifiers_json[2][i][1]))])

\* `let qualifiers = ...` of the claim loop.
Qualifiers(claim) ==
    LET order == Get(claim, "qualifiers-order")
        qualifiers_json == Get(claim, "qualifiers")
    IN  IF ~IsArr(order) THEN Ok(<<>>)
        ELSE IF qualifiers_json = None THEN Err("QualifiersOrderButNoObject")
        ELSE IF ~IsObj(qualifiers_json) THEN Err("ExpectedObject")
        ELSE CollectAll([i \in 1..Len(order[2]) |->
                            QualifiersOf(qualifiers_json, order[2][i])])

\* A variant of the claim's parts that looks at the rank and the mainsnak
\* before the references, the qualifiers and the id.
ClaimValueRankFirst(pid, references, qualifiers, id, rank, mainsnak, data) ==
    IF ~IsStr(rank) THEN Err("NoRank")
    ELSE IF IsErr(RankFromStr(rank[2])) THEN RankFromStr(rank[2])
    ELSE IF mainsnak = None THEN Err("MissingMainsnak")
    ELSE IF ~IsOk(data) THEN data
    ELSE IF ~IsOk(qualifiers) THEN qualifiers
    ELSE IF ~IsOk(references) THEN references
    ELSE IF ~IsStr(id) THEN Err("NoClaimId")
    ELSE Ok(<<pid, [data |-> data[2],
                    rank |-> RankFromStr(rank[2])[2],
                    id |-> id[2],
                    qualifiers |-> qualifiers[2],
                    references |-> references[2]]>>)

\* claims.push((pid, ClaimValue { id, rank, data, qualifiers, references }))
\* of the references and the qualifiers the loops gave, of the fields `id`
\* and `rank` and of what parse_snak gives for the mainsnak; the parts are
\* evaluated in the order references, qualifiers, id, rank, data.
ClaimValue(pid, references, qualifiers, id, rank, mainsnak, data) ==
    IF ~IsOk(references) THEN references
    ELSE IF ~IsOk(qualifiers) THEN qualifiers
    ELSE IF ~IsStr(id) THEN Err("NoClaimId")
    ELSE IF ~IsStr(rank) THEN Err("NoRank")
    ELSE IF IsErr(RankFromStr(rank[2])) THEN RankFromStr(rank[2])
    ELSE IF mainsnak = None THEN Err("MissingMainsnak")
    ELSE IF ~IsOk(data) THEN data
    ELSE Ok(<<pid, [data |-> data[2],
                    rank |-> RankFromStr(rank[2])[2],
                    id |-> id[2],
                    qualifiers |-> qualifiers[2],
                    references |-> references[2]]>>)

\* The body of `for claim in claim_list`.
ClaimOf(pid, claim) ==
    ClaimValue(pid, References(claim), Qualifiers(claim), Get(claim, "id"),
               Get(claim, "rank"), Get(claim, "mainsnak"),
               parse_snak(Get(claim, "mainsnak")))

\* One iteration of `for (pid, claim_list) in claims`.
ClaimsOfProperty(entry) ==
    IF IsErr(IdFromStr("Pid", entry[1])) THEN Err("BadId")
    ELSE IF ~IsArr(entry[2]) THEN Err("ExpectedClaimArray")
    ELSE Collect([i \in 1..Len(entry[2][2]) |->
                     ClaimOf(IdFromStr("Pid", entry[1])[2], entry[2][2][i])])

\* The claims loop of from_json.
Claims(json) ==
    LET claims == Get(json, "claims")
    IN  IF claims = None THEN Err("NoClaims")
        ELSE IF ~IsObj(claims) THEN Err("ExpectedObject")
        ELSE CollectAll([i \in 1..Len(claims[2]) |->
                            ClaimsOfProperty(claims[2][i])])

\* Ok(Self { id, claims, entity_type, descriptions, labels, aliases }) of
\* the parts of the working node, evaluated in the order id, labels,
\* descriptions, aliases, entity_type, claims.
Entity(raw_id, id, labels, descriptions, aliases, entity_type, claims) ==
    IF raw_id = None THEN Err("ExpectedObject")
    ELSE IF ~IsStr(raw_id) THEN Err("ExpectedKeyvalTextString")
    ELSE IF IsErr(id) THEN Err("NoId")
    ELSE IF IsErr(labels) THEN labels
    ELSE IF IsErr(descriptions) THEN descriptions
    ELSE IF IsErr(aliases) THEN aliases
    ELSE IF IsErr(entity_type) THEN entity_type
    ELSE IF ~IsOk(claims) THEN claims
    ELSE Ok([id |-> id[2], claims |-> claims[2],
             entity_type |-> entity_type[2],
             descriptions |-> descriptions[2], labels |-> labels[2],
             aliases |-> aliases[2]])

\* from_json after the envelope: the decoding of the working node.
EntityOf(json) ==
    Entity(Get(json, "id"), WikiIdFromStr(Get(json, "id")[2]),
           text_keyval(json, "labels"), text_keyval(json, "descriptions"),
           Aliases(json), EntityTypeOf(json), Claims(json))

\* A variant of the envelope handling that takes the first entity of an
\* envelope that holds several.
WorkingNodeFirstEntity(json) ==
    LET ents == Get(json, "entities")
    IN  IF ents = None THEN Ok(json)
        ELSE IF ~IsObj(ents) THEN Err("ExpectedObject")
        ELSE IF Len(ents[2]) = 0 THEN Err("NoEntities")
        ELSE Ok(ents[2][1][2])

\* `let mut json = match json.get_mut("entities")`: the working node.
WorkingNode(json) ==
    LET ents == Get(json, "entities")
    IN  IF ents = None THEN Ok(json)
        ELSE IF ~IsObj(ents) THEN Err("ExpectedObject")
        ELSE IF Len(ents[2]) = 0 THEN Err("NoEntities")
        ELSE IF Len(ents[2]) = 1 THEN Ok(ents[2][1][2])
        ELSE Err("MultipleEntities")

\* Entity::from_json
from_json(json) ==
    IF IsErr(WorkingNode(json)) THEN WorkingNode(json)
    ELSE EntityOf(WorkingNode(json)[2])

\* ClaimValue::get_prop_from_snak: Some(claim), None, or a panic.  A `?`
\* on an Option returns None; a loop ends at its first return or panic.
get_prop_from_snak(claim, skip_id) ==
    LET \* `if let Ok(x) = parse_snak(snak) { push((Pid(pid[1..].parse()
        \* .ok()?), x)) }`, x the result of parse_snak: a snak that does
        \* not decode is skipped; for one that does, `pid[1..]` panics on an
        \* empty key and inside a character, and a rest that is no u64
        \* returns None.
        Pushed(pid, x) ==
            IF x = Panic THEN Panic
            ELSE IF IsErr(x) THEN Ok(<<>>)
            ELSE IF pid = <<>> \/ ByteLen(pid[1]) > 1 THEN Panic
            ELSE IF IsErr(ParseUnsigned(From(pid, 2), -1)) THEN None
            ELSE Ok(<<<<Pid(ParseUnsigned(From(pid, 2), -1)[2]), x[2]>>>>)
        \* One entry (pid, array of snaks) of a `snaks` or a `qualifiers`
        \* object.
        PushedOf(pid, snak_group) ==
            IF ~IsArr(snak_group) THEN None
            ELSE CollectAll([i \in 1..Len(snak_group[2]) |->
                                Pushed(pid, parse_snak(snak_group[2][i]))])
        \* The loop over the entries of a `snaks` or a `qualifiers` object.
        PushedAll(snaks) ==
            CollectAll([i \in 1..Len(snaks[2]) |->
                           PushedOf(snaks[2][i][1], snaks[2][i][2])])
        \* v.push(ReferenceGroup { claims, hash })
        GroupOf(claims, hash) ==
            IF ~IsOk(claims) THEN claims
            ELSE IF ~IsStr(hash) THEN None
            ELSE Ok([claims |-> claims[2], hash |-> hash[2]])
        \* One iteration of `for reference_group in arr`: the group's
        \* `snaks` is indexed in the map (a panic when absent), then taken
        \* as an array for the capacity and as an object for the loop.
        Group(reference_group, snaks) ==
            IF ~IsObj(reference_group) THEN None
            ELSE IF snaks = None THEN Panic
            ELSE IF ~IsArr(snaks) THEN None
            ELSE IF ~IsObj(snaks) THEN None
            ELSE GroupOf(PushedAll(snaks), Get(reference_group, "hash"))
        \* `let references = ...`
        ReferencesOf(arr) ==
            IF IsArr(arr)
                THEN Collect([i \in 1..Len(arr[2]) |->
                                 Group(arr[2][i], Get(arr[2][i], "snaks"))])
            ELSE Ok(<<>>)
        \* `let qualifiers = ...`
        QualifiersOfObject(qualifiers_json) ==
            IF IsObj(qualifiers_json) THEN PushedAll(qualifiers_json)
            ELSE Ok(<<>>)
        \* The function's steps in their order, of the values they read.
        Steps(rank, data, references, qualifiers, id) ==
            IF ~IsStr(rank) THEN None
            ELSE IF rank[2] \notin {"normal", "preferred"} THEN None
            ELSE IF data = Panic THEN Panic
            ELSE IF IsErr(data) THEN None
            ELSE IF ~IsOk(references) THEN references
            ELSE IF ~IsOk(qualifiers) THEN qualifiers
            ELSE IF ~skip_id /\ ~IsStr(id) THEN None
            ELSE Some([data |-> data[2],
                       rank |-> IF rank[2] = "normal" THEN "Normal"
                                ELSE "Preferred",
                       id |-> IF skip_id THEN "" ELSE id[2],
                       qualifiers |-> qualifiers[2],
                       references |-> references[2]])
    IN  Steps(take_prop("rank", claim),
              parse_snak(take_prop("mainsnak", claim)),
              ReferencesOf(take_prop("references", claim)),
              QualifiersOfObject(take_prop("qualifiers", claim)),
              take_prop("id", claim))

(***************************************************************************)
(* SpecSnak: one snak is decoded by ClaimValueData::parse_snak.            *)
(***************************************************************************)
\* "+1952-03-11T00:00:00Z", the date of birth in tests/claim-from-json.rs
TimeOfTest ==
    <<"+", "1", "9", "5", "2", "-", "0", "3", "-", "1", "1", "T",
      "0", "0", ":", "0", "0", ":", "0", "0", "Z">>

\* Time strings with a time of day: the one of the test, "+1-1-1T1:1" (no
\* seconds), "+1T25:00:00" (no such hour) and "+1T1:1:1" (a one-character
\* seconds field).
LongTimeStrings ==
    {TimeOfTest,
     <<"+", "1", "-", "1", "-", "1", "T", "1", ":", "1">>,
     <<"+", "1", "T", "2", "5", ":", "0", "0", ":", "0", "0">>,
     <<"+", "1", "T", "1", ":", "1", ":", "1">>}

TimeChars == {"+", "-", "1", "T", "e'"}

MaxTimeLen == 4

TimeStrings == SeqsUpTo(TimeChars, MaxTimeLen) \cup LongTimeStrings

NumberChars == {"+", "-", "1", ".", "x"}

MaxNumberLen == 2

NumberStrings == SeqsUpTo(NumberChars, MaxNumberLen)

MaxPrecisionInput == 16

\* JSON numbers: -1 .. MaxPrecisionInput, their tenths and their hundredfolds.
NumberInputs ==
    {F64(m, e) : m \in -1..MaxPrecisionInput, e \in 0..1}
        \cup {F64(100 * m, 0) : m \in 0..MaxPrecisionInput}

\* A field that holds a number: absent, null, a JSON number or a string.
NumberFields ==
    {None, JNull} \cup {JNum(x) : x \in NumberInputs}
        \cup {JStr(t) : t \in NumberStrings}

\* The `value` objects of "time" datavalues: every time string with a
\* precision that is absent, a number or no number, and every precision
\* with a time that is absent, no string, rejected or accepted.
TimeValues ==
    {ObjOf(<< <<"time", JStr(t)>>, <<"precision", pr>> >>) :
        t \in TimeStrings, pr \in {None, JNum(F64(11, 0)), JStr(<<"x">>)}}
        \cup {ObjOf(<< <<"time", tm>>, <<"precision", pr>> >>) :
                tm \in {None, JNum(F64(1, 0)), JStr(<<"T">>), JStr(<<"+", "1">>),
                        JStr(<<"-", "1", "1">>), JStr(TimeOfTest)},
                pr \in NumberFields}

Datavalue(type, value) == ObjOf(<< <<"type", type>>, <<"value", value>> >>)

\* One datavalue of every other shape parse_snak knows, and some it
\* rejects.
OtherDatavalues ==
    {None, JNull, JStr("text"),
     Datavalue(None, JStr("text")),
     Datavalue(JStr("string"), JStr("text")),
     Datavalue(JStr("string"), JNull),
     Datavalue(JStr("other"), JStr("text")),
     Datavalue(JStr("wikibase-entityid"),
               ObjOf(<< <<"id", JStr(<<"Q", "5">>)>> >>)),
     Datavalue(JStr("wikibase-entityid"),
               ObjOf(<< <<"id", JStr(<<"L", "1", "-", "F", "1">>)>> >>)),
     Datavalue(JStr("globecoordinate"),
               ObjOf(<< <<"latitude", JNum(F64(5, 1))>>,
                        <<"longitude", JStr(<<"-", "1">>)>>,
                        <<"globe", JStr(<<EntityPrefix, "2">>)>> >>)),
     Datavalue(JStr("quantity"),
               ObjOf(<< <<"amount", JStr(<<"+", "1", ".", "5">>)>>,
                        <<"unit", JStr(<<"1">>)>> >>)),
     Datavalue(JStr("monolingualtext"),
               ObjOf(<< <<"text", JStr("text")>>,
                        <<"language", JStr("en")>> >>))}

IriChars == {EntityPrefix, "5", "+", "x"}

MaxIriLen == 3

\* A field that holds an IRI: absent, null, a number or a string of the
\* entity prefix, digits and other text.
IriFields ==
    {None, JNull, JNum(F64(5, 0))}
        \cup {JStr(t) : t \in SeqsUpTo(IriChars, MaxIriLen)}

\* A bound of a quantity: absent, parsable or not.
BoundFields == {None, JStr(<<"+", "1">>), JStr(<<"x">>)}

\* The `value` objects of "quantity" datavalues.
QuantityValues ==
    {ObjOf(<< <<"amount", am>>, <<"upperBound", ub>>, <<"lowerBound", lb>>,
              <<"unit", un>> >>) :
        am \in NumberFields, ub \in BoundFields, lb \in BoundFields,
        un \in {None, JStr(<<"1">>), JStr(<<EntityPrefix, "5">>),
                JStr(<<EntityPrefix, "x">>)}}

\* A coordinate: absent, a number, a parsable string or not.
CoordinateFields ==
    {None, JNum(F64(-5, 1)), JStr(<<"-", "1">>), JStr(<<"x">>)}

\* The `value` objects of "globecoordinate" datavalues: every globe with
\* every coordinate, and every precision with coordinates and a globe that
\* decode.
GlobeValues ==
    {ObjOf(<< <<"latitude", lat>>, <<"longitude", lon>>,
              <<"precision", pr>>, <<"globe", gl>> >>) :
        lat \in CoordinateFields, lon \in CoordinateFields,
        pr \in {None, JNum(F64(1, 2))}, gl \in IriFields}
        \cup {ObjOf(<< <<"latitude", JNum(F64(-5, 1))>>,
                       <<"longitude", JStr(<<"-", "1">>)>>,
                       <<"precision", pr>>,
                       <<"globe", JStr(<<EntityPrefix, "5">>)>> >>) :
                pr \in NumberFields}

SnaktypeFields ==
    {None, JNull, JStr("value"), JStr("novalue"), JStr("somevalue"),
     JStr("other")}

DatatypeFields == {None, JNull, JStr("time"), JStr("string"), JStr("other")}

Snak(snaktype, datatype, datavalue) ==
    ObjOf(<< <<"snaktype", snaktype>>, <<"datatype", datatype>>,
             <<"datavalue", datavalue>> >>)

\* "value" snaks over every datatype of the "string" arm and some others,
\* with `datavalue.type` "string", another string, not a string or absent.
StringSnaks ==
    LET StringDatatypes ==
            {"string", "commonsMedia", "external-id", "math", "geo-shape",
             "musical-notation", "tabular-data", "url"}
        StringPayloads == {None, JNull, JStr(""), JStr("text"), JStr("Q5")}
    IN  {Snak(JStr("value"), dt, Datavalue(ty, v)) :
            dt \in {None, JNull, JStr("other"), JStr("time"), JStr("String")}
                      \cup {JStr(d) : d \in StringDatatypes},
            ty \in {None, JNull, JStr("string"), JStr("other"), JStr("url")},
            v \in StringPayloads}

MaxEntityIdTail == 4

\* The `value` objects of "wikibase-entityid" datavalues.  Their `id`
\* strings: every short string over the characters of the identifiers,
\* longer ones that start with 'L', and form and sense ids whose number is
\* the largest u16 and the one after it.
EntityIdValues ==
    LET LongEntityIds ==
            {<<"L", "1", "-", k>> \o n :
                k \in {"F", "S"},
                n \in {<<"6", "5", "5", "3", "5">>, <<"6", "5", "5", "3", "6">>}}
        EntityIdInputs ==
            SeqsUpTo(IdChars, MaxIdLen)
                \cup {<<"L">> \o t : t \in SeqsUpTo(SubIdChars, MaxEntityIdTail)}
                \cup LongEntityIds
    IN  {ObjOf(<< <<"id", id>> >>) :
            id \in {None, JNull} \cup {JStr(x) : x \in EntityIdInputs}}

\* Every snaktype and datatype with a few datavalues.
SnakShapes ==
    {Snak(st, dt, dv) :
        st \in SnaktypeFields, dt \in DatatypeFields,
        dv \in OtherDatavalues
                 \cup {Datavalue(JStr("time"), tv) :
                         tv \in {ObjOf(<< <<"time", JStr(t)>>,
                                          <<"precision", pr>> >>) :
                                   t \in {TimeOfTest, <<"T">>},
                                   pr \in {None, JNum(F64(11, 0))}}}}

\* "value" snaks with every datavalue of a type, with and without
\* `datatype`.
ValueSnaks(type, datatype, values) ==
    {Snak(JStr("value"), dt, Datavalue(JStr(type), v)) :
        dt \in {None, JStr(datatype)}, v \in values}

InitSnak ==
    /\ \/ input = JNull
       \/ input \in SnakShapes
       \/ input \in StringSnaks
       \/ input \in ValueSnaks("wikibase-entityid", "wikibase-item",
                                 EntityIdValues)
       \/ input \in ValueSnaks("time", "time", TimeValues)
       \/ input \in ValueSnaks("quantity", "quantity", QuantityValues)
       \/ input \in ValueSnaks("globecoordinate", "globe-coordinate",
                               GlobeValues)
    /\ call = "none"
    /\ result = None
    /\ shown = None

\* ClaimValueData::parse_snak(input)
ParseSnak ==
    /\ call = "none"
    /\ call' = "parse_snak"
    /\ result' = parse_snak(input)
    /\ UNCHANGED <<input, shown>>

NextSnak == ParseSnak

SpecSnak == InitSnak /\ [][NextSnak]_vars

(***************************************************************************)
(* SpecNumber: one JSON value is read by parse_wb_number.                  *)
(***************************************************************************)
MaxWbNumberLen == 3

\* JSON values of every shape: the numbers, the short strings over the
\* characters of numbers, the "-81.12683" of the test, and values that are
\* neither.
WbNumberInputs ==
    LET WbNumberChars == {"+", "-", "0", "1", ".", "x", "inf", "NaN"}
    IN  {JNum(x) : x \in NumberInputs}
            \cup {JStr(t) : t \in SeqsUpTo(WbNumberChars, MaxWbNumberLen)}
            \cup {JStr(<<"-", "8", "1", ".", "1", "2", "6", "8", "3">>),
                  JNull, JBool(TRUE), JBool(FALSE), JArr(<<>>),
                  JArr(<<JNum(F64(1, 0))>>), JObj(<<>>),
                  JObj(<< <<"amount", JStr(<<"1">>)>> >>)}

InitNumber ==
    /\ input \in WbNumberInputs
    /\ call = "none"
    /\ result = None
    /\ shown = None

\* parse_wb_number(&input)
ParseWbNumber ==
    /\ call = "none"
    /\ call' = "parse_wb_number"
    /\ result' = parse_wb_number(input)
    /\ UNCHANGED <<input, shown>>

NextNumber == ParseWbNumber

SpecNumber == InitNumber /\ [][NextNumber]_vars

(***************************************************************************)
(* SpecTime: one time string is parsed by parse_wb_time.                   *)
(***************************************************************************)
\* <sign>Y, <sign>Y-M and <sign>Y-M-D, with and without a time of day: years
\* around the leap-year rules and around the first and the last year
\* chrono holds; after the date nothing, the midnight of the test or an
\* empty time of day.
DateStrings ==
    LET YearFields ==
            {<<"0">>, <<"1">>, <<"4">>, <<"1", "0", "0">>,
             <<"2", "0", "0", "0">>, <<"2", "0", "2", "0">>,
             <<"2", "6", "2", "1", "4", "3">>, <<"2", "6", "2", "1", "4", "4">>,
             <<"2", "6", "2", "1", "4", "5">>}
        MonthFields ==
            {<<>>, <<"0">>, <<"0", "0">>, <<"1">>, <<"0", "1">>, <<"2">>,
             <<"4">>, <<"1", "2">>, <<"1", "3">>, <<"x">>, <<"+", "2">>}
        DayFields ==
            {<<>>, <<"0">>, <<"1">>, <<"2", "8">>, <<"2", "9">>, <<"3", "0">>,
             <<"3", "1">>, <<"3", "2">>, <<"x">>}
        TimeSuffixes ==
            {<<>>, <<"T", "0", "0", ":", "0", "0", ":", "0", "0", "Z">>, <<"T">>}
    IN  {<<sign>> \o date \o suffix :
            sign \in {"+", "-"},
            date \in YearFields
                       \cup {y \o <<"-">> \o mo :
                               y \in YearFields, mo \in MonthFields}
                       \cup {y \o <<"-">> \o mo \o <<"-">> \o d :
                               y \in YearFields, mo \in MonthFields,
                               d \in DayFields},
            suffix \in TimeSuffixes}

InitTime ==
    /\ \/ input \in TimeStrings
       \/ input \in DateStrings
    /\ call = "none"
    /\ result = None
    /\ shown = None

\* parse_wb_time(input)
ParseWbTime ==
    /\ call = "none"
    /\ call' = "parse_wb_time"
    /\ result' = parse_wb_time(input)
    /\ UNCHANGED <<input, shown>>

NextTime == ParseWbTime

SpecTime == InitTime /\ [][NextTime]_vars

(***************************************************************************)
(* SpecEntity: one document is decoded by Entity::from_json.  A JSON       *)
(* object is the sequence of its entries in the order the map iterates     *)
(* them.                                                                   *)
(***************************************************************************)
NoValueSnak == Snak(JStr("novalue"), JStr("string"), None)

StringSnak ==
    Snak(JStr("value"), JStr("string"), Datavalue(JStr("string"), JStr("text")))

\* A snak parse_snak rejects (InvalidSnaktype).
BadSnak == Snak(JStr("other"), JStr("string"), None)

\* A time snak with the one-character seconds field of "+1T1:1:1".
AbortingSnak ==
    Snak(JStr("value"), JStr("time"),
         Datavalue(JStr("time"),
                   ObjOf(<< <<"time", JStr(<<"+", "1", "T", "1", ":", "1", ":", "1">>)>>,
                            <<"precision", JNum(F64(11, 0))>> >>)))

\* A `qualifiers` object and its order array: one snak under P2.
QualifiersWith(snak) == JObj(<< << <<"P", "2">>, JArr(<<snak>>) >> >>)

QualifiersOrder == JArr(<<JStr(<<"P", "2">>)>>)

\* A `references` array: one group with one snak under P3.
ReferencesWith(snak) ==
    JArr(<<ObjOf(<< <<"snaks", JObj(<< << <<"P", "3">>, JArr(<<snak>>) >> >>)>>,
                    <<"snaks-order", JArr(<<JStr(<<"P", "3">>)>>)>>,
                    <<"hash", JStr("hash")>> >>)>>)

ClaimNode(id, rank, mainsnak, qualifiers, order, references) ==
    ObjOf(<< <<"id", id>>, <<"rank", rank>>, <<"mainsnak", mainsnak>>,
             <<"qualifiers", qualifiers>>, <<"qualifiers-order", order>>,
             <<"references", references>> >>)

ClaimKinds ==
    {"plain", "full", "rank_unknown", "rank_absent", "id_absent",
     "mainsnak_absent", "mainsnak_bad", "mainsnak_aborts", "qualifier_bad",
     "qualifier_unlisted", "reference_bad"}

\* The claim node of a kind, its id the text of its position i in the
\* document.
ClaimNodeOf(kind, i) ==
    LET id == IF kind = "id_absent" THEN None ELSE JStr(ToString(i))
        rank == IF kind = "rank_unknown" THEN JStr("other")
                ELSE IF kind = "rank_absent" THEN None
                ELSE IF kind = "full" THEN JStr("preferred")
                ELSE JStr("normal")
        mainsnak == IF kind = "mainsnak_absent" THEN None
                    ELSE IF kind = "mainsnak_bad" THEN BadSnak
                    ELSE IF kind = "mainsnak_aborts" THEN AbortingSnak
                    ELSE IF kind = "full" THEN StringSnak
                    ELSE NoValueSnak
        qualifiers == IF kind = "full" THEN QualifiersWith(NoValueSnak)
                      ELSE IF kind \in {"qualifier_bad", "qualifier_unlisted"}
                          THEN QualifiersWith(BadSnak)
                      ELSE None
        order == IF kind \in {"full", "qualifier_bad"} THEN QualifiersOrder
                 ELSE None
        references == IF kind = "full" THEN ReferencesWith(StringSnak)
                      ELSE IF kind = "reference_bad" THEN ReferencesWith(BadSnak)
                      ELSE None
    IN  ClaimNode(id, rank, mainsnak, qualifiers, order, references)

MaxClaimNodes == 2

\* The keys of the two properties of a `claims` map, in iteration order.
ClaimKeys ==
    {<< <<"P", "1">>, <<"P", "2">> >>, << <<"P", "2">>, <<"P", "1">> >>,
     << <<"P", "1">>, <<"Q", "1">> >>}

\* A `claims` map of two properties: the first k nodes of the kinds under
\* the first key, the others under the second.
ClaimsMap(keys, kinds, k) ==
    JObj(<< <<keys[1], JArr([i \in 1..k |-> ClaimNodeOf(kinds[i], i)])>>,
            <<keys[2], JArr([i \in 1..(Len(kinds) - k) |->
                                ClaimNodeOf(kinds[k + i], k + i)])>> >>)

ClaimsFields ==
    {None, JNull, JObj(<<>>), JObj(<< << <<"P", "1">>, JNull >> >>)}
        \cup {ClaimsMap(keys, split[1], split[2]) :
                keys \in ClaimKeys,
                split \in {s \in SeqsUpTo(ClaimKinds, MaxClaimNodes)
                                    \X (0..MaxClaimNodes) :
                              s[1] # <<>> /\ s[2] <= Len(s[1])}}

EntityNode(id, type, claims, labels, descriptions, aliases) ==
    ObjOf(<< <<"id", id>>, <<"type", type>>, <<"claims", claims>>,
             <<"labels", labels>>, <<"descriptions", descriptions>>,
             <<"aliases", aliases>> >>)

\* Item Q1 with the given claims and no text.
ItemWith(claims) == EntityNode(JStr(<<"Q", "1">>), JStr("item"), claims,
                               None, None, None)

LabelsOfTest == JObj(<< <<"en", ObjOf(<< <<"language", JStr("en")>>,
                                        <<"value", JStr("label")>> >>)>> >>)

AliasesOfTest == JObj(<< <<"en", JArr(<<ObjOf(<< <<"value", JStr("alias")>> >>),
                                        ObjOf(<< <<"language", JStr("en")>> >>)>>)>> >>)

\* Working nodes: entities that decode, with and without text and claims,
\* and entities that do not.
NodeSamples ==
    {ItemWith(JObj(<<>>)),
     ItemWith(ClaimsMap(<< <<"P", "1">>, <<"P", "2">> >>, <<"plain", "full">>, 1)),
     ItemWith(ClaimsMap(<< <<"P", "1">>, <<"P", "2">> >>, <<"mainsnak_aborts">>, 1)),
     ItemWith(ClaimsMap(<< <<"P", "1">>, <<"P", "2">> >>, <<"rank_unknown">>, 0)),
     ItemWith(None),
     EntityNode(JStr(<<"P", "2">>), JStr("property"), JObj(<<>>),
                LabelsOfTest, LabelsOfTest, AliasesOfTest),
     EntityNode(JStr(<<"L", "3">>), JStr("lexeme"), JObj(<<>>),
                JObj(<< <<"en", JNull>> >>), None, None),
     EntityNode(JStr(<<"Q", "1">>), JStr("item"), JObj(<<>>),
                None, None, JObj(<< <<"en", JNull>> >>)),
     EntityNode(JStr(<<"Q", "1">>), JStr("other"), JObj(<<>>), None, None, None),
     EntityNode(JStr(<<"Q", "1">>), None, JObj(<<>>), None, None, None),
     EntityNode(JStr(<<"X", "1">>), JStr("item"), JObj(<<>>), None, None, None),
     EntityNode(JStr(<<"Q">>), JStr("item"), JObj(<<>>), None, None, None),
     EntityNode(JNull, JStr("item"), JObj(<<>>), None, None, None),
     EntityNode(None, JStr("item"), JObj(<<>>), None, None, None)}

\* The keys of a `qualifiers` object or of the `snaks` of a reference group.
SnakKeys == {<<"P", "2">>, <<"P", "3">>}

\* What a key of such an object can hold.
SnakLists ==
    {JNull, JArr(<<>>), JArr(<<NoValueSnak>>),
     JArr(<<StringSnak, NoValueSnak>>), JArr(<<BadSnak>>)}

\* The objects with no, one or both keys, in both iteration orders.
SnakMaps ==
    {JObj(<<>>)}
        \cup {JObj(<< <<k, l>> >>) : k \in SnakKeys, l \in SnakLists}
        \cup {JObj(<< <<e[1], e[3]>>, <<e[2], e[4]>> >>) :
                e \in {x \in SnakKeys \X SnakKeys \X SnakLists \X SnakLists :
                          x[1] # x[2]}}

MaxOrderLen == 2

\* `qualifiers-order` and `snaks-order` arrays: the keys, a string that is
\* no property id and an entry that is no string.
OrderArrays ==
    {JArr(o) : o \in SeqsUpTo({JStr(k) : k \in SnakKeys}
                                 \cup {JStr(<<"X", "1">>), JNull}, MaxOrderLen)}

\* Item Q1 with one claim of P1.
ItemWithClaim(node) == ItemWith(JObj(<< << <<"P", "1">>, JArr(<<node>>) >> >>))

QualifierDocument(qualifiers, order) ==
    ItemWithClaim(ClaimNode(JStr("1"), JStr("normal"), NoValueSnak,
                            qualifiers, order, None))

QualifierDocuments ==
    {QualifierDocument(q, o) :
        q \in {None, JNull} \cup SnakMaps, o \in {None, JNull} \cup OrderArrays}

ReferenceGroupNode(snaks, order, hash) ==
    ObjOf(<< <<"snaks", snaks>>, <<"snaks-order", order>>, <<"hash", hash>> >>)

MaxReferenceGroups == 2

ReferenceDocument(references) ==
    ItemWithClaim(ClaimNode(JStr("1"), JStr("normal"), NoValueSnak,
                            None, None, references))

\* Arrays of one group, over every map, order array and hash field, and
\* arrays of up to MaxReferenceGroups of a few groups: two that decode, one
\* without order, one without hash.
ReferenceDocuments ==
    LET HashFields == {None, JNull, JStr("hash")}
        ReferenceGroupNodes ==
            {ReferenceGroupNode(s, o, h) :
                s \in {None, JNull} \cup SnakMaps,
                o \in {None, JNull} \cup OrderArrays,
                h \in HashFields}
        ReferenceGroupSamples ==
            {ReferenceGroupNode(
                 JObj(<< << <<"P", "2">>, JArr(<<NoValueSnak>>) >> >>),
                 JArr(<<JStr(<<"P", "2">>)>>), JStr("hash")),
             ReferenceGroupNode(
                 JObj(<< << <<"P", "3">>, JArr(<<StringSnak>>) >> >>),
                 JArr(<<JStr(<<"P", "3">>)>>), JStr("other")),
             ReferenceGroupNode(JObj(<<>>), None, JStr("hash")),
             ReferenceGroupNode(JObj(<<>>), JArr(<<>>), None)}
    IN  {ReferenceDocument(r) :
            r \in {JNull, JArr(<<>>)}
                     \cup {JArr(<<g>>) : g \in ReferenceGroupNodes}
                     \cup {JArr(gs) : gs \in SeqsUpTo(ReferenceGroupSamples,
                                                      MaxReferenceGroups)}}

TextDocument(labels, descriptions, aliases) ==
    EntityNode(JStr(<<"Q", "1">>), JStr("item"), JObj(<<>>),
               labels, descriptions, aliases)

MaxAliases == 3

\* Documents with `labels` and `descriptions` of no, one and two languages,
\* whose entries are well-formed or not, and documents with `aliases` of
\* one and two languages and up to MaxAliases aliases, with and without a
\* string `value`.
TextDocuments ==
    LET TextEntries ==
            {JNull, ObjOf(<<>>), ObjOf(<< <<"value", JNull>> >>),
             ObjOf(<< <<"value", JStr("label")>> >>),
             ObjOf(<< <<"language", JStr("en")>>, <<"value", JStr("other")>> >>)}
        TextMaps ==
            {None, JNull, JObj(<<>>)}
                \cup {JObj(<< <<"en", e>> >>) : e \in TextEntries}
                \cup {JObj(<< <<"en", e>>, <<"fr", f>> >>) :
                        e \in TextEntries, f \in TextEntries}
        AliasEntries ==
            {JNull, ObjOf(<< <<"value", JNull>> >>),
             ObjOf(<< <<"value", JStr("alias")>> >>),
             ObjOf(<< <<"language", JStr("en")>>, <<"value", JStr("other")>> >>)}
        AliasLists ==
            {JNull} \cup {JArr(l) : l \in SeqsUpTo(AliasEntries, MaxAliases)}
        AliasMaps ==
            {None, JNull, JObj(<<>>)}
                \cup {JObj(<< <<"en", l>> >>) : l \in AliasLists}
                \cup {JObj(<< <<"en", AliasesOfTest[2][1][2]>>, <<"fr", l>> >>) :
                        l \in AliasLists}
    IN  {TextDocument(l, d, None) : l \in TextMaps, d \in TextMaps}
            \cup {TextDocument(l, l, a) :
                    l \in {None, LabelsOfTest}, a \in AliasMaps}

\* Item Q1 with claims of P1 that differ in their `rank` fields only.
RankDocument(ranks) ==
    ItemWith(JObj(<< << <<"P", "1">>,
                        JArr([i \in 1..Len(ranks) |->
                                ClaimNode(JStr(ToString(i)), ranks[i],
                                          NoValueSnak, None, None, None)]) >> >>))

MaxRankedClaims == 2

\* Claims of every rank, of ranks that are none, and without a rank string.
RankDocuments ==
    LET RankFields ==
            {None, JNull, JNum(F64(1, 0)), JStr("deprecated"), JStr("normal"),
             JStr("preferred"), JStr("other"), JStr("Normal")}
    IN  {RankDocument(ranks) : ranks \in SeqsUpTo(RankFields, MaxRankedClaims)}

\* Item Q1 with one claim of P1 that has no, one or several defects: in its
\* id, its rank, its mainsnak, its qualifiers and its references.
StepDocuments ==
    LET QualifierFields ==
            {<<None, None>>, <<QualifiersWith(NoValueSnak), QualifiersOrder>>,
             <<QualifiersWith(BadSnak), QualifiersOrder>>,
             <<None, QualifiersOrder>>}
        ReferenceFields ==
            {None, ReferencesWith(StringSnak), ReferencesWith(BadSnak),
             JArr(<<ReferenceGroupNode(JObj(<<>>), JArr(<<>>), None)>>)}
    IN  {ItemWithClaim(ClaimNode(id, rank, mainsnak, q[1], q[2], references)) :
            id \in {None, JStr("1")},
            rank \in {None, JStr("normal"), JStr("other")},
            mainsnak \in {None, NoValueSnak, BadSnak},
            q \in QualifierFields,
            references \in ReferenceFields}

Envelope(entities) == JObj(<< <<"entities", entities>> >>)

MaxEntities == 2

\* The keys of the envelope's entries (from_json does not read them).
EntityKey(i) == <<"Q", ToString(i)>>

\* What an entry of the envelope can hold: a working node, or an envelope.
EntryValues == NodeSamples \cup {Envelope(JObj(<<>>))}

EnvelopeDocuments ==
    {Envelope(JNull), Envelope(JArr(<<>>))}
        \cup {Envelope(JObj([i \in 1..Len(vs) |-> <<EntityKey(i), vs[i]>>])) :
                vs \in SeqsUpTo(EntryValues, MaxEntities)}

DocumentInputs ==
    NodeSamples \cup {ItemWith(c) : c \in ClaimsFields} \cup EnvelopeDocuments

InitEntity ==
    /\ \/ input \in DocumentInputs
       \/ input \in QualifierDocuments
       \/ input \in ReferenceDocuments
       \/ input \in TextDocuments
       \/ input \in RankDocuments
       \/ input \in StepDocuments
    /\ call = "none"
    /\ result = None
    /\ shown = None

\* Entity::from_json(input)
FromJson ==
    /\ call = "none"
    /\ call' = "from_json"
    /\ result' = from_json(input)
    /\ UNCHANGED <<input, shown>>

NextEntity == FromJson

SpecEntity == InitEntity /\ [][NextEntity]_vars

(***************************************************************************)
(* SpecLenient: one claim node is decoded by                               *)
(* ClaimValue::get_prop_from_snak, with and without skip_id.  The input    *)
(* is the pair of the function's two arguments.                            *)
(***************************************************************************)
MaxLenientGroups == 2

\* Claim nodes that differ in their id, rank and mainsnak; claim nodes of
\* rank "normal" with every `qualifiers` object of the model and with keys
\* that are no property ids; claim nodes with `references` of no, one and
\* several groups, with and without `snaks` and `hash`.
InitLenient ==
    LET Ids == {None, JNull, JStr("1")}
        Ranks == {None, JNull, JStr("deprecated"), JStr("normal"),
                  JStr("preferred"), JStr("other")}
        Mainsnaks == {None, NoValueSnak, StringSnak, BadSnak, AbortingSnak}
        OddKeys == {<<>>, <<"e'", "2">>, <<"X", "2">>, <<"P", "x">>, <<"P">>}
        QualifierFields ==
            {None, JNull, JArr(<<>>)} \cup SnakMaps
                \cup {JObj(<< <<k, l>> >>) : k \in OddKeys, l \in SnakLists}
                \cup {QualifiersWith(AbortingSnak)}
        Groups ==
            {JNull}
                \cup {ReferenceGroupNode(s, None, h) :
                         s \in {None, JNull, JArr(<<NoValueSnak>>), JObj(<<>>),
                                JObj(<< << <<"P", "2">>, JArr(<<NoValueSnak>>) >> >>)},
                         h \in {None, JStr("hash"), JStr("other")}}
        ReferenceFields ==
            {None, JNull, JObj(<<>>)}
                \cup {JArr(gs) : gs \in SeqsUpTo(Groups, MaxLenientGroups)}
    IN  /\ \E skip_id \in BOOLEAN :
              \/ \E id \in Ids, rank \in Ranks, mainsnak \in Mainsnaks,
                    references \in {None, JArr(<<>>), ReferencesWith(StringSnak)} :
                     input = <<ClaimNode(id, rank, mainsnak, None, None,
                                         references), skip_id>>
              \/ \E id \in Ids, q \in QualifierFields :
                     input = <<ClaimNode(id, JStr("normal"), NoValueSnak, q,
                                         None, None), skip_id>>
              \/ \E rank \in {JStr("normal"), JStr("preferred"),
                              JStr("deprecated")},
                    references \in ReferenceFields :
                     input = <<ClaimNode(JStr("1"), rank, StringSnak, None,
                                         None, references), skip_id>>
              \/ \E claim \in {JNull, JArr(<<>>)} : input = <<claim, skip_id>>
        /\ call = "none"
        /\ result = None
        /\ shown = None

GetPropFromSnak ==
    /\ call = "none"
    /\ call' = "get_prop_from_snak"
    /\ result' = get_prop_from_snak(input[1], input[2])
    /\ UNCHANGED <<input, shown>>

NextLenient == GetPropFromSnak

SpecLenient == InitLenient /\ [][NextLenient]_vars

(***************************************************************************)
(* Claims about the identifier grammar, checked under SpecId.              *)
(***************************************************************************)
\* A run of one or more decimal digits and nothing else.
IsDigitString(s) == s # <<>> /\ AllDigits(s)

\* What the integer parser of the standard library accepts: an optional
\* '+' and then a run of digits.
IsSignedDigitString(s) ==
    s # <<>> /\ IsDigitString(IF s[1] = "+" THEN From(s, 2) ELSE s)

DashCount(s) == Cardinality({i \in 1..Len(s) : s[i] = "-"})

\* The text of s before its first dash (all of s when it has none).
BeforeDash(s) ==
    IF DashCount(s) = 0 THEN s
    ELSE SubSeq(s, 1, (CHOOSE i \in 1..Len(s) :
                           s[i] = "-" /\ \A k \in 1..(i - 1) : s[k] # "-") - 1)

\* The text of s after its first dash (s has one).
AfterDash(s) ==
    From(s, (CHOOSE i \in 1..Len(s) :
                 s[i] = "-" /\ \A k \in 1..(i - 1) : s[k] # "-") + 1)

\* C1: for each identifier kind and every string the kind's parser
\* accepts, formatting the parsed identifier gives back exactly that string.
C1_RoundTrip == shown # None => shown = input

\* C2: a single-letter parser (Qid, Pid, Lid) fails with InvalidPrefix when
\* the first character is not the kind's letter (the empty string included);
\* otherwise it succeeds with number n exactly when the remaining characters
\* are an unsigned integer (digits, no extra characters) of value n, and
\* fails with UnparseableNumber in every other case.
C2_SingleLetterParsing ==
    call \in SingleKinds =>
        IF input = <<>> \/ input[1] # Letter(call)
            THEN result = Err("InvalidPrefix")
        ELSE IF IsDigitString(From(input, 2))
            THEN result = Ok(<<call, DecimalValue(From(input, 2))>>)
        ELSE result = Err("UnparseableNumber")

\* C3 as stated: for every input that starts with 'L', the Fid and Sid
\* parsers fail with TooFewParts on zero dashes, with TooManyParts on more
\* than one dash, and with InvalidPrefix on exactly one dash when the second
\* segment does not start with the kind's letter.
C3_AsStated ==
    (call \in SubKinds /\ input # <<>> /\ input[1] = "L") =>
        /\ DashCount(input) = 0 => result = Err("TooFewParts")
        /\ DashCount(input) > 1 => result = Err("TooManyParts")
        /\ (/\ DashCount(input) = 1
            /\ (AfterDash(input) = <<>> \/ AfterDash(input)[1] # Letter(call)))
               => result = Err("InvalidPrefix")

\* C3 amended: for every input that starts with 'L' and whose first segment
\* (between the 'L' and the first dash or the end) is an optional '+' and
\* digits, the Fid and Sid parsers fail with TooFewParts on zero dashes,
\* with InvalidPrefix on one or more dashes when the second segment does not
\* start with the kind's letter, and with TooManyParts on more than one dash
\* when the second segment is the kind's letter and a number that fits u16.
C3_SubIdErrors ==
    (/\ call \in SubKinds /\ input # <<>> /\ input[1] = "L"
     /\ IsSignedDigitString(BeforeDash(From(input, 2)))) =>
        /\ DashCount(input) = 0 => result = Err("TooFewParts")
        /\ DashCount(input) >= 1 =>
            LET second == BeforeDash(AfterDash(input))
            IN  /\ (second = <<>> \/ second[1] # Letter(call))
                       => result = Err("InvalidPrefix")
                /\ (/\ DashCount(input) > 1
                    /\ second # <<>> /\ second[1] = Letter(call)
                    /\ IsSignedDigitString(From(second, 2))
                    /\ DecimalValue(IF second[2] = "+" THEN From(second, 3)
                                    ELSE From(second, 2)) <= U16Max)
                       => result = Err("TooManyParts")

\* C3's case: a string with a valid lexeme number, a valid form number and
\* one more dash was parsed as a Fid and failed with TooManyParts.
C3_Witness ==
    /\ call = "Fid" /\ DashCount(input) = 2
    /\ result = Err("TooManyParts")

(***************************************************************************)
(* Claims about the snak decoder, checked under SpecSnak.                  *)
(***************************************************************************)
\* The fields of the snak that was decoded, None when absent.
InSnaktype == Get(input, "snaktype")

InDatatype == Get(input, "datatype")

InType == Get(Get(input, "datavalue"), "type")

InTime == Get(Get(Get(input, "datavalue"), "value"), "time")

InPrecision == Get(Get(Get(input, "datavalue"), "value"), "precision")

\* The snak is a "value" snak whose datavalue is of type "time".
IsTimeSnak == InSnaktype = JStr("value") /\ InType = JStr("time")

\* The snak's `time` is a string that the time parser rejects / accepts.
TimeRejected == IsStr(InTime) /\ IsErr(parse_wb_time(InTime[2]))

TimeAccepted == IsStr(InTime) /\ IsOk(parse_wb_time(InTime[2]))

\* The snak's `precision` is absent or cannot be parsed as a number: it is
\* not a JSON number and not a string holding a decimal number.
PrecisionUnusable ==
    /\ InPrecision[1] # "num"
    /\ ~(IsStr(InPrecision) /\ IsOk(parse_wb_number(InPrecision)))

\* C6: a snak whose snaktype is "novalue" decodes to NoValue and one whose
\* snaktype is "somevalue" to UnknownValue, whatever datatype and datavalue
\* hold or lack; a snaktype string other than "value", "novalue" and
\* "somevalue" fails with InvalidSnaktype.
C6_SnaktypeDispatch ==
    call = "parse_snak" =>
        /\ InSnaktype = JStr("novalue") => result = Ok(NoValue)
        /\ InSnaktype = JStr("somevalue") => result = Ok(UnknownValue)
        /\ (IsStr(InSnaktype)
              /\ InSnaktype[2] \notin {"value", "novalue", "somevalue"})
               => result = Err("InvalidSnaktype")

\* C7 as stated: parse_snak returns UnknownValue only if the snaktype is
\* "somevalue"; no "value" snak decodes to UnknownValue.
C7_AsStated ==
    result = Ok(UnknownValue) => InSnaktype = JStr("somevalue")

\* C7 amended: parse_snak returns UnknownValue only if the snaktype is
\* "somevalue", or the snak is a "value" snak of datavalue type "time" whose
\* time string the time parser rejects; an unknown snaktype, datatype or
\* datavalue type never gives UnknownValue.
C7_UnknownValueOnlyFrom ==
    result = Ok(UnknownValue) =>
        \/ InSnaktype = JStr("somevalue")
        \/ IsTimeSnak /\ TimeRejected

\* C7's case: a "value" snak was decoded to UnknownValue.
C7_Witness ==
    /\ call = "parse_snak" /\ result = Ok(UnknownValue)
    /\ InSnaktype = JStr("value")

\* C8 as stated: a "value" snak of datavalue type "time" whose time string
\* the time parser rejects decodes to UnknownValue, not to an error.
C8_AsStated ==
    (call = "parse_snak" /\ IsTimeSnak /\ TimeRejected)
        => result = Ok(UnknownValue)

\* C8 amended: a "value" snak with a string datatype and a datavalue of type
\* "time" whose time string the time parser rejects decodes to
\* UnknownValue, not to an error.
C8_TimeFallback ==
    (call = "parse_snak" /\ IsTimeSnak /\ IsStr(InDatatype) /\ TimeRejected)
        => result = Ok(UnknownValue)

\* C8's case: the time string "T" (no year) was rejected and the snak
\* decoded.
C8_Witness ==
    /\ call = "parse_snak" /\ IsTimeSnak /\ TimeRejected
    /\ InTime = JStr(<<"T">>)
    /\ result = Ok(UnknownValue)

\* C9 as stated: a "value" snak of datavalue type "time" whose precision is
\* absent or not parsable as a number fails and returns no value (stated
\* for any failure, whatever the error).
C9_AsStated ==
    (call = "parse_snak" /\ IsTimeSnak /\ PrecisionUnusable)
        => ~IsOk(result)

\* C9 amended: a "value" snak of datavalue type "time" whose time string
\* the time parser accepts fails if its precision is absent or not parsable
\* as a number: with InvalidPrecision when the snak has a string datatype,
\* with ExpectedString when it has not.
C9_PrecisionRequired ==
    (call = "parse_snak" /\ IsTimeSnak /\ TimeAccepted /\ PrecisionUnusable)
        => result = IF IsStr(InDatatype) THEN Err("InvalidPrecision")
                    ELSE Err("ExpectedString")

\* C9's case: a time snak with a good time string and no precision failed
\* with InvalidPrecision.
C9_Witness ==
    /\ call = "parse_snak" /\ IsTimeSnak /\ TimeAccepted
    /\ IsStr(InDatatype) /\ InPrecision = None
    /\ result = Err("InvalidPrecision")

\* C10: every DateTime that parse_snak returns has a precision between 0
\* and 14, for every numeric precision of the input.
C10_PrecisionRange ==
    (IsOk(result) /\ result[2][1] = "DateTime")
        => (0 <= result[2][3] /\ result[2][3] <= 14)

\* The `value` of the input's datavalue, and a field of it as parse_snak
\* takes it.
InValue == Get(Get(input, "datavalue"), "value")

InField(key) == take_prop(key, InValue)

\* The input is a "value" snak with a `datatype` and with a datavalue of
\* the type.
IsValueSnak(type) ==
    InSnaktype = JStr("value") /\ IsStr(InDatatype) /\ InType = JStr(type)

Parses(num) == IsOk(parse_wb_number(num))

\* The input is a "value" snak with a datavalue of the type, whatever its
\* `datatype`.
HasValueOfType(type) == InSnaktype = JStr("value") /\ InType = JStr(type)

\* What C11 says of the result, of a snak that is a quantity and of one
\* that is a globe coordinate.
BestEffortFields(quantity, globe) ==
    /\ (quantity /\ Parses(InField("amount"))) =>
          /\ IsOk(result) /\ result[2][1] = "Quantity"
          /\ result[2][3] = None <=> ~Parses(InField("lowerBound"))
          /\ result[2][4] = None <=> ~Parses(InField("upperBound"))
          /\ result[2][5] = None <=> ~IsOk(try_get_as_qid(InField("unit")))
    /\ (quantity /\ ~Parses(InField("amount"))) => IsErr(result)
    /\ (/\ globe
        /\ Parses(InField("latitude")) /\ Parses(InField("longitude"))
        /\ IsOk(try_get_as_qid(InField("globe")))
        /\ ~Parses(InField("precision")))
          => (IsOk(result) /\ result[2][4] = F64(1, 0))
    /\ (globe /\ ~(Parses(InField("latitude")) /\ Parses(InField("longitude"))))
          => IsErr(result)

\* C11 as stated: a quantity snak whose `amount` parses always decodes,
\* with upper_bound, lower_bound and unit None exactly when `upperBound`,
\* `lowerBound` and `unit` are absent or cannot be parsed; a globecoordinate
\* snak whose latitude, longitude and globe decode has precision 1.0 when
\* `precision` is absent or cannot be parsed; an `amount`, `latitude` or
\* `longitude` that is absent or cannot be parsed fails the snak.
C11_AsStated ==
    call = "parse_snak" =>
        BestEffortFields(HasValueOfType("quantity"),
                         HasValueOfType("globecoordinate"))

\* C11, of the snaks that have a `datatype` string: the same.
C11_BestEffortFields ==
    call = "parse_snak" =>
        BestEffortFields(IsValueSnak("quantity"),
                         IsValueSnak("globecoordinate"))

\* A quantity whose upper bound cannot be parsed has been decoded, with its
\* lower bound.
C11_Witness ==
    /\ call = "parse_snak" /\ IsValueSnak("quantity")
    /\ InField("upperBound") = JStr(<<"x">>)
    /\ IsOk(result) /\ result[2][4] = None /\ result[2][3] # None

\* The text is "http://www.wikidata.org/entity/Q" and then one or more
\* digits.
IsEntityIri(text) ==
    /\ Len(text) >= 2 /\ text[1] = EntityPrefix
    /\ \A i \in 2..Len(text) : IsDigit(text[i])

\* C12: a globecoordinate snak (with a `datatype`, and a latitude and a
\* longitude that parse) decodes only if its `globe` is a string of the
\* form http://www.wikidata.org/entity/Q<n>, and then to the globe Qid(n);
\* with every other `globe` it fails with ExpectedQidString.
C12_GlobeIri ==
    (/\ call = "parse_snak" /\ IsValueSnak("globecoordinate")
     /\ Parses(InField("latitude")) /\ Parses(InField("longitude"))) =>
        IF IsStr(InField("globe")) /\ IsEntityIri(InField("globe")[2])
            THEN /\ IsOk(result)
                 /\ result[2][5] = Qid(DecimalValue(From(InField("globe")[2], 2)))
        ELSE result = Err("ExpectedQidString")

\* The `datavalue.type` values parse_snak dispatches on.
DatavalueTypes ==
    {"string", "wikibase-entityid", "globecoordinate", "quantity", "time",
     "monolingualtext"}

\* The variant C13 names for each `datatype` of a "string" datavalue.
VariantOfDatatype ==
    {<<"string", "String">>, <<"commonsMedia", "CommonsMedia">>,
     <<"external-id", "ExternalID">>, <<"math", "MathExpr">>,
     <<"geo-shape", "GeoShape">>, <<"musical-notation", "MusicNotation">>,
     <<"tabular-data", "TabularData">>, <<"url", "Url">>}

\* The dispatch of C13 for a "value" snak, given which `datatype` fields and
\* which `datavalue.type` fields the statement is about.
DatatypeDispatch(datatypes, types) ==
    /\ (/\ InSnaktype = JStr("value") /\ datatypes
        /\ InType = JStr("string") /\ IsStr(InValue)) =>
            IF \E p \in VariantOfDatatype : InDatatype = JStr(p[1])
                THEN \E p \in VariantOfDatatype :
                        /\ InDatatype = JStr(p[1])
                        /\ result = Ok(<<p[2], InValue[2]>>)
            ELSE result = Err("InvalidDatatype")
    /\ (/\ InSnaktype = JStr("value") /\ datatypes /\ types
        /\ InType \notin {JStr(t) : t \in DatavalueTypes}) =>
            result = Err("UnknownDatatype")

\* C13 as stated: for every "value" snak, whatever its `datatype` and
\* `datavalue.type` fields hold.
C13_AsStated == call = "parse_snak" => DatatypeDispatch(TRUE, TRUE)

\* C13: for a "value" snak whose `datatype` is a string, a "string"
\* datavalue with payload s decodes to the variant its `datatype` names
\* (String, CommonsMedia, ExternalID, MathExpr, GeoShape, MusicNotation,
\* TabularData, Url) and fails with InvalidDatatype for any other
\* `datatype`; a `datavalue.type` that is a string outside the six known
\* ones fails with UnknownDatatype.
C13_DatatypeDispatch ==
    call = "parse_snak" => DatatypeDispatch(IsStr(InDatatype), IsStr(InType))

C13_Witness ==
    /\ call = "parse_snak" /\ InSnaktype = JStr("value")
    /\ InDatatype = JStr("url") /\ InType = JStr("string")
    /\ result = Ok(<<"Url", "text">>)

\* The variant of ClaimValueData that holds an identifier of each kind.
VariantOfKind ==
    {<<"Qid", "Item">>, <<"Pid", "Property">>, <<"Lid", "Lexeme">>,
     <<"Fid", "Form">>, <<"Sid", "Sense">>}

\* The result of parse_snak agrees with the five identifier parsers on the
\* string id.
AgreesWithParsers(id) ==
    /\ \A p \in VariantOfKind :
          IsOk(FromStr(p[1], id)) <=>
              result = Ok(<<p[2], FromStr(p[1], id)[2]>>)
    /\ (\A p \in VariantOfKind : ~IsOk(FromStr(p[1], id))) =>
          result = Err("BadId")

\* C14 as stated: for every "value" snak with a "wikibase-entityid"
\* datavalue whose `id` is a string.
C14_AsStated ==
    (/\ call = "parse_snak" /\ HasValueOfType("wikibase-entityid")
     /\ IsStr(InField("id"))) => AgreesWithParsers(InField("id")[2])

\* C14: for a "value" snak with a string `datatype` and a
\* "wikibase-entityid" datavalue whose `id` is a string, parse_snak returns
\* Item, Property, Lexeme, Form or Sense exactly when the Qid, Pid, Lid, Fid
\* or Sid parser accepts the id, with the identifier that parser returns,
\* and fails with BadId when none of the five accepts it.
C14_EntityIdGrammar ==
    (/\ call = "parse_snak" /\ IsValueSnak("wikibase-entityid")
     /\ IsStr(InField("id"))) => AgreesWithParsers(InField("id")[2])

C14_Witness ==
    /\ call = "parse_snak" /\ IsValueSnak("wikibase-entityid")
    /\ InField("id") = JStr(<<"L", "1", "-", "F", "1">>)
    /\ result = Ok(<<"Form", Fid(Lid(1), 1)>>)

(***************************************************************************)
(* Claims about parse_wb_number, checked under SpecNumber.                 *)
(***************************************************************************)
\* The text is a decimal number: an optional '-', then digits with at most
\* one '.', at least one digit in all.
IsDecimal(text) ==
    LET body == IF text # <<>> /\ text[1] = "-" THEN From(text, 2) ELSE text
        dots == {i \in 1..Len(body) : body[i] = "."}
    IN  /\ Cardinality(dots) <= 1
        /\ \A i \in 1..Len(body) : IsDigit(body[i]) \/ body[i] = "."
        /\ Len(body) > Cardinality(dots)

\* The value of a decimal number, as the pair of f64.
DecimalOf(text) ==
    LET neg == text[1] = "-"
        body == IF neg THEN From(text, 2) ELSE text
        digits == SelectSeq(body, IsDigit)
        places == IF \E i \in 1..Len(body) : body[i] = "."
                      THEN Len(body) - (CHOOSE i \in 1..Len(body) : body[i] = ".")
                  ELSE 0
    IN  F64(IF neg THEN 0 - DecimalValue(digits) ELSE DecimalValue(digits),
            places)

\* The text without its one optional leading '+'.
Unsigned(text) ==
    IF text # <<>> /\ text[1] = "+" THEN From(text, 2) ELSE text

\* C21: parse_wb_number returns the value of a JSON number; for a JSON
\* string that is one optional '+' and then a decimal number d (with or
\* without a '-') it returns d, the same for "+d" and "d"; a string that is
\* no such number fails with FloatParse, and every other JSON shape fails
\* with ExpectedNumberString.
C21_NumberParsing ==
    call = "parse_wb_number" =>
        /\ input[1] = "num" => result = Ok(input[2])
        /\ (IsStr(input) /\ IsDecimal(Unsigned(input[2]))) =>
              /\ result = Ok(DecimalOf(Unsigned(input[2])))
              /\ parse_wb_number(JStr(<<"+">> \o Unsigned(input[2]))) = result
        /\ (IsStr(input) /\ ~IsDecimal(Unsigned(input[2]))) =>
              result = Err("FloatParse")
        /\ input[1] \notin {"num", "str"} => result = Err("ExpectedNumberString")

(***************************************************************************)
(* Claims about parse_wb_time, checked under SpecTime.                     *)
(***************************************************************************)
\* The fields of the date of a time string: what is between its sign and
\* its first 'T', split at the dashes.
DateFields(time) == Split(Split(From(time, 2), "T")[1], "-")

\* The time string is <sign>Y[-M[-D]], alone or followed by a 'T' segment.
HasDateForm(time) ==
    /\ time # <<>> /\ time[1] \in {"+", "-"}
    /\ Len(DateFields(time)) <= 3
    /\ IsDigitString(DateFields(time)[1])

\* The month or the day C20 gives for field i: 1 when the field is absent,
\* is unparsable or is 0.
FieldOrOne(fields, i) ==
    IF i > Len(fields) \/ ~IsSignedDigitString(fields[i]) THEN 1
    ELSE LET n == DecimalValue(IF fields[i][1] = "+" THEN From(fields[i], 2)
                               ELSE fields[i])
         IN  IF n = 0 THEN 1 ELSE n

\* The year C20 gives: Y after '+', -Y after '-'.
SignedYear(time) ==
    IF time[1] = "+" THEN DecimalValue(DateFields(time)[1])
    ELSE 0 - DecimalValue(DateFields(time)[1])

\* Day d of month m of year y is a date of the (proleptic) Gregorian
\* calendar.
IsCalendarDate(y, m, d) ==
    /\ m \in 1..12
    /\ d >= 1
    /\ d <= (IF m \in {4, 6, 9, 11} THEN 30
             ELSE IF m # 2 THEN 31
             ELSE IF (y % 4 = 0 /\ y % 100 # 0) \/ y % 400 = 0 THEN 29
             ELSE 28)

\* A calendar date of a year chrono can hold.
IsChronoDate(y, m, d) ==
    IsCalendarDate(y, m, d) /\ y >= ChronoMinYear /\ y <= ChronoMaxYear

\* The statements of C20, given which year/month/day count as dates.
DatePart(IsDate(_, _, _)) ==
    /\ input = <<>> => result = Err("TimeEmpty")
    /\ HasDateForm(input) =>
          LET y == SignedYear(input)
              m == FieldOrOne(DateFields(input), 2)
              d == FieldOrOne(DateFields(input), 3)
          IN  /\ IsOk(result) =>
                    /\ result[2][1] = y /\ result[2][2] = m /\ result[2][3] = d
              /\ result = Err("NoDateMatched") <=> ~IsDate(y, m, d)
              /\ (IsDate(y, m, d) /\ \A i \in 1..Len(input) : input[i] # "T")
                    => result = Ok(<<y, m, d, 0, 0, 0>>)

TimeFields(time) == Split(Split(From(time, 2), "T")[2], ":")

\* The time string has a date that parse_wb_time accepts and one 'T'.
HasTimeOfDay(time) ==
    /\ time # <<>> /\ time[1] \in {"+", "-"}
    /\ Len(Split(From(time, 2), "T")) = 2
    /\ IsOk(parse_wb_time(Split(time, "T")[1]))

\* C24: parse_wb_time returns an instant or an error for every string and
\* never aborts; with a 'T' segment, an hour, a minute or a second that is
\* out of range gives an error, and a seconds field of any length is read
\* by its first two characters.
C24_Totality ==
    call = "parse_wb_time" =>
        /\ IsOk(result) \/ IsErr(result)
        /\ (HasTimeOfDay(input) /\ Len(TimeFields(input)) >= 3
                /\ \A i \in 1..3 : IsDigitString(TimeFields(input)[i])) =>
              IF \/ DecimalValue(TimeFields(input)[1]) >= 24
                 \/ DecimalValue(TimeFields(input)[2]) >= 60
                 \/ DecimalValue(SubSeq(TimeFields(input)[3], 1, 2)) >= 60
                  THEN IsErr(result)
              ELSE /\ IsOk(result)
                   /\ result[2][6] = DecimalValue(SubSeq(TimeFields(input)[3], 1, 2))

(***************************************************************************)
(* Claims about Entity::from_json, checked under SpecEntity.               *)
(***************************************************************************)
InEntities == Get(input, "entities")

\* The value of the only entry of the input's envelope.
OnlyEntity == InEntities[2][1][2]

\* C4: with a top-level `entities` object, no entry gives NoEntities and
\* more than one gives MultipleEntities; exactly one entry, whose value has
\* no `entities` key of its own, gives what decoding that value as a
\* document gives; a document without `entities` is decoded as it is.
C4_Envelope ==
    call = "from_json" =>
        /\ (IsObj(InEntities) /\ Len(InEntities[2]) = 0)
              => result = Err("NoEntities")
        /\ (IsObj(InEntities) /\ Len(InEntities[2]) > 1)
              => result = Err("MultipleEntities")
        /\ (IsObj(InEntities) /\ Len(InEntities[2]) = 1
                /\ Get(OnlyEntity, "entities") = None)
              => result = from_json(OnlyEntity)
        /\ InEntities = None => result = EntityOf(input)

\* An envelope of one entity with claims has been decoded to that entity.
C4_Witness ==
    /\ call = "from_json"
    /\ IsObj(InEntities) /\ Len(InEntities[2]) = 1
    /\ Get(OnlyEntity, "entities") = None
    /\ IsOk(result) /\ Len(result[2].claims) = 2

\* The input is a document without envelope whose `claims` is a map of
\* arrays.
HasClaimArrays ==
    /\ InEntities = None
    /\ IsObj(Get(input, "claims"))
    /\ \A i \in 1..Len(Get(input, "claims")[2]) :
           IsArr(Get(input, "claims")[2][i][2])

\* The <<property key, claim node>> pairs of the input, in the order the
\* map's properties are iterated and, within a property, in array order.
InClaimNodes ==
    LET claims == Get(input, "claims")[2]
    IN  Flatten([i \in 1..Len(claims) |->
                    [j \in 1..Len(claims[i][2][2]) |->
                        <<claims[i][1], claims[i][2][2][j]>>]])

SnakFails(snak) == ~IsOk(parse_snak(snak))

RankFails(node) ==
    \/ ~IsStr(Get(node, "rank"))
    \/ Get(node, "rank")[2] \notin {"normal", "deprecated", "preferred"}

IdFails(node) == ~IsStr(Get(node, "id"))

MainsnakFails(node) ==
    Get(node, "mainsnak") = None \/ SnakFails(Get(node, "mainsnak"))

\* A snak that some listed property of `qualifiers` holds fails.
QualifierFails(node) ==
    LET order == Get(node, "qualifiers-order")
        qualifiers == Get(node, "qualifiers")
    IN  /\ IsArr(order) /\ IsObj(qualifiers)
        /\ \E i \in 1..Len(order[2]) :
              /\ IsStr(order[2][i])
              /\ IsArr(Get(qualifiers, order[2][i][2]))
              /\ \E j \in 1..Len(Get(qualifiers, order[2][i][2])[2]) :
                    SnakFails(Get(qualifiers, order[2][i][2])[2][j])

\* A snak that some listed property of some reference group holds fails.
ReferenceFails(node) ==
    LET groups == Get(node, "references")
        Fails(snaks, order) ==
            /\ IsObj(snaks) /\ IsArr(order)
            /\ \E i \in 1..Len(order[2]) :
                  /\ IsStr(order[2][i])
                  /\ IsArr(Get(snaks, order[2][i][2]))
                  /\ \E j \in 1..Len(Get(snaks, order[2][i][2])[2]) :
                        SnakFails(Get(snaks, order[2][i][2])[2][j])
    IN  /\ IsArr(groups)
        /\ \E g \in 1..Len(groups[2]) :
              Fails(Get(groups[2][g], "snaks"), Get(groups[2][g], "snaks-order"))

ClaimNodeFails(node) ==
    \/ RankFails(node) \/ IdFails(node) \/ MainsnakFails(node)
    \/ QualifierFails(node) \/ ReferenceFails(node)

\* C5: when the rank, the id, the mainsnak, a qualifier snak or a reference
\* snak of any claim node cannot be decoded, from_json returns an error;
\* when from_json succeeds, the claims list holds one (PropertyId, Claim)
\* pair per claim node, in the iteration order of the map and, within a
\* property, in array order.
C5_StrictMode ==
    (call = "from_json" /\ HasClaimArrays) =>
        /\ (\E k \in 1..Len(InClaimNodes) : ClaimNodeFails(InClaimNodes[k][2]))
              => IsErr(result)
        /\ IsOk(result) =>
              /\ Len(result[2].claims) = Len(InClaimNodes)
              /\ \A k \in 1..Len(InClaimNodes) :
                    /\ Ok(result[2].claims[k][1])
                          = IdFromStr("Pid", InClaimNodes[k][1])
                    /\ JStr(result[2].claims[k][2].id)
                          = Get(InClaimNodes[k][2], "id")

\* The input is a document of one claim node.
HasOneClaim == HasClaimArrays /\ Len(InClaimNodes) = 1

OnlyClaimNode == InClaimNodes[1][2]

\* The same object with its entries in the opposite iteration order.
ReverseEntries(map) ==
    JObj([i \in 1..Len(map[2]) |-> map[2][Len(map[2]) + 1 - i]])

\* The entry i of the order array names a list of `snaks` whose snaks all
\* decode.
OrderEntryDecodes(snaks, order, i) ==
    /\ IsStr(order[2][i]) /\ IsArr(Get(snaks, order[2][i][2]))
    /\ \A j \in 1..Len(Get(snaks, order[2][i][2])[2]) :
          /\ IsOk(IdFromStr("Pid", order[2][i][2]))
          /\ IsOk(parse_snak(Get(snaks, order[2][i][2])[2][j]))

\* The concatenation, over the property ids of the order array, of the
\* decoded snaks the map holds under that id, each paired with the id.
SnaksInOrder(map, order) ==
    Flatten([k \in 1..Len(order[2]) |->
                [j \in 1..Len(Get(map, order[2][k][2])[2]) |->
                    <<IdFromStr("Pid", order[2][k][2])[2],
                      parse_snak(Get(map, order[2][k][2])[2][j])[2]>>]])

\* C15: when a claim with a `qualifiers-order` array decodes, its qualifiers
\* are the concatenation, over that array in order, of the decoded snaks of
\* `qualifiers[<pid>]` in array order, each paired with the property id; and
\* the key order of the `qualifiers` object does not change the result of
\* from_json.
C15_QualifierOrder ==
    (call = "from_json" /\ HasOneClaim) =>
        LET qualifiers == Get(OnlyClaimNode, "qualifiers")
            order == Get(OnlyClaimNode, "qualifiers-order")
        IN  /\ (IsOk(result) /\ IsArr(order)) =>
                  /\ IsObj(qualifiers)
                  /\ \A i \in 1..Len(order[2]) :
                        OrderEntryDecodes(qualifiers, order, i)
                  /\ result[2].claims[1][2].qualifiers
                        = SnaksInOrder(qualifiers, order)
            /\ (IsObj(qualifiers) /\ input = QualifierDocument(qualifiers, order))
                  => from_json(QualifierDocument(ReverseEntries(qualifiers),
                                                 order)) = result

\* Qualifiers of two properties decoded in the order of `qualifiers-order`,
\* the opposite of the key order of `qualifiers`.
C15_Witness ==
    /\ call = "from_json" /\ HasOneClaim /\ IsOk(result)
    /\ Get(OnlyClaimNode, "qualifiers-order")
          = JArr(<<JStr(<<"P", "3">>), JStr(<<"P", "2">>)>>)
    /\ Get(OnlyClaimNode, "qualifiers")[2][1][1] = <<"P", "2">>
    /\ Len(result[2].claims[1][2].qualifiers) = 3
    /\ result[2].claims[1][2].qualifiers[1][1] = Pid(3)

\* C16: a claim with a `qualifiers` object and no `qualifiers-order` array
\* makes from_json fail; a claim with neither decodes with zero qualifiers;
\* a claim with a `qualifiers-order` array and no `qualifiers` object, or
\* whose order array names a property that `qualifiers` does not hold, makes
\* from_json fail.
C16_QualifierConsistency ==
    (call = "from_json" /\ HasOneClaim) =>
        LET qualifiers == Get(OnlyClaimNode, "qualifiers")
            order == Get(OnlyClaimNode, "qualifiers-order")
        IN  /\ (IsObj(qualifiers) /\ ~IsArr(order)) => IsErr(result)
            /\ (input = QualifierDocument(None, None)) =>
                  /\ IsOk(result)
                  /\ result[2].claims[1][2].qualifiers = <<>>
            /\ (IsArr(order) /\ ~IsObj(qualifiers)) => IsErr(result)
            /\ (/\ IsArr(order) /\ IsObj(qualifiers)
                /\ \E i \in 1..Len(order[2]) :
                      /\ IsStr(order[2][i])
                      /\ Get(qualifiers, order[2][i][2]) = None)
                  => IsErr(result)

\* The snaks of the group decode: whether the group decodes is up to its
\* hash.
GroupSnaksDecode(group) ==
    LET snaks == Get(group, "snaks")
        order == Get(group, "snaks-order")
    IN  /\ IsObj(snaks) /\ IsArr(order)
        /\ \A i \in 1..Len(order[2]) : OrderEntryDecodes(snaks, order, i)

\* The group's order array names a key `snaks` does not hold, at entry i.
NamesAbsentKey(group, i) ==
    /\ IsStr(Get(group, "snaks-order")[2][i])
    /\ Get(Get(group, "snaks"), Get(group, "snaks-order")[2][i][2]) = None

\* The defects of a reference group C17 names.
GroupDefect(group) ==
    \/ ~IsArr(Get(group, "snaks-order"))
    \/ /\ IsObj(Get(group, "snaks"))
       /\ \E i \in 1..Len(Get(group, "snaks-order")[2]) : NamesAbsentKey(group, i)
    \/ ~IsStr(Get(group, "hash"))

\* The error C17 names for a group whose first defect is one of these.
GroupError(group) ==
    LET snaks == Get(group, "snaks")
        order == Get(group, "snaks-order")
        hash == Get(group, "hash")
    IN  /\ (IsObj(snaks) /\ ~IsArr(order)) => result = Err("NoSnakOrder")
        /\ (/\ IsObj(snaks) /\ IsArr(order)
            /\ \E i \in 1..Len(order[2]) :
                  /\ NamesAbsentKey(group, i)
                  /\ \A k \in 1..(i - 1) : OrderEntryDecodes(snaks, order, k))
              => result = Err("SnaksOrderIncludesNonSnak")
        /\ (GroupSnaksDecode(group) /\ hash = None) => result = Err("NoHash")
        /\ (GroupSnaksDecode(group) /\ hash # None /\ ~IsStr(hash))
              => result = Err("ExpectedHashString")

\* C17: the decoded references of a claim are one ReferenceGroup per entry
\* of its `references` array, in array order, each with the group's hash
\* and with the concatenation, over `snaks-order` in order, of the decoded
\* snaks of `snaks[<pid>]` in array order; a group without `snaks-order`,
\* one whose order names a key absent from `snaks` and one without a `hash`
\* string make from_json fail, and the first such defect of the first
\* group that does not decode gives NoSnakOrder, SnaksOrderIncludesNonSnak,
\* NoHash or ExpectedHashString.
C17_ReferenceGroups ==
    (call = "from_json" /\ HasOneClaim
        /\ IsArr(Get(OnlyClaimNode, "references"))) =>
        LET groups == Get(OnlyClaimNode, "references")[2]
            decoded == result[2].claims[1][2].references
        IN  /\ IsOk(result) =>
                  /\ Len(decoded) = Len(groups)
                  /\ \A g \in 1..Len(groups) :
                        /\ GroupSnaksDecode(groups[g])
                        /\ decoded[g].claims
                              = SnaksInOrder(Get(groups[g], "snaks"),
                                             Get(groups[g], "snaks-order"))
                        /\ JStr(decoded[g].hash) = Get(groups[g], "hash")
            /\ \A g \in 1..Len(groups) :
                  /\ GroupDefect(groups[g]) => IsErr(result)
                  /\ (\A k \in 1..(g - 1) :
                          /\ GroupSnaksDecode(groups[k])
                          /\ IsStr(Get(groups[k], "hash")))
                        => GroupError(groups[g])

\* Two reference groups decoded in array order.
C17_Witness ==
    /\ call = "from_json" /\ HasOneClaim /\ IsOk(result)
    /\ IsArr(Get(OnlyClaimNode, "references"))
    /\ Len(Get(OnlyClaimNode, "references")[2]) = 2
    /\ Len(result[2].claims[1][2].references) = 2
    /\ result[2].claims[1][2].references[1].hash = "hash"
    /\ result[2].claims[1][2].references[2].hash = "other"
    /\ result[2].claims[1][2].references[2].claims[1][1] = Pid(3)

\* C18: from_json of a working node fails with NoId when the node's `id` is
\* absent, is not a string or is a string the identifier parser rejects,
\* and otherwise the id of the decoded Entity is the parsed identifier.
C18_EntityId ==
    (call = "from_json" /\ InEntities = None /\ IsObj(input)) =>
        IF ~IsStr(Get(input, "id")) \/ ~IsOk(WikiIdFromStr(Get(input, "id")[2]))
            THEN result = Err("NoId")
        ELSE IsOk(result) => result[2].id = WikiIdFromStr(Get(input, "id")[2])[2]

\* An entry of a `labels` or `descriptions` map is malformed: no object, no
\* `value`, or a `value` that is no string.
TextEntryMalformed(entry) ==
    ~IsObj(entry) \/ ~IsStr(Get(entry, "value"))

\* C19 for `labels` or `descriptions`: a malformed entry makes the decode
\* fail, and the decoded map holds the `value` string of each language key
\* and nothing else.
TextMapFatal(map, decoded) ==
    /\ (IsObj(map) /\ \E i \in 1..Len(map[2]) : TextEntryMalformed(map[2][i][2]))
          => IsErr(result)
    /\ (IsOk(result) /\ IsObj(map)) =>
          /\ \A i \in 1..Len(map[2]) :
                \A text \in {p[2] : p \in {q \in decoded : q[1] = map[2][i][1]}} :
                    JStr(text) = Get(map[2][i][2], "value")
          /\ {p[1] : p \in decoded} = {map[2][i][1] : i \in 1..Len(map[2])}
          /\ Cardinality(decoded) = Len(map[2])
    /\ (IsOk(result) /\ map = None) => decoded = {}

\* The `value` strings of the aliases of a list that have one, in the order
\* of the list.
RECURSIVE AliasStrings(_)
AliasStrings(list) ==
    IF list = <<>> THEN <<>>
    ELSE (IF IsStr(Get(Head(list), "value"))
              THEN <<Get(Head(list), "value")[2]>> ELSE <<>>)
             \o AliasStrings(Tail(list))

\* The text fields of the input are such that C19 says the decode does not
\* fail: well-formed labels and descriptions, and arrays of aliases.
TextDecodable ==
    /\ input = TextDocument(Get(input, "labels"), Get(input, "descriptions"),
                            Get(input, "aliases"))
    /\ \A key \in {"labels", "descriptions"} :
          \/ Get(input, key) = None
          \/ /\ IsObj(Get(input, key))
             /\ \A i \in 1..Len(Get(input, key)[2]) :
                   ~TextEntryMalformed(Get(input, key)[2][i][2])
    /\ \/ Get(input, "aliases") = None
       \/ /\ IsObj(Get(input, "aliases"))
          /\ \A i \in 1..Len(Get(input, "aliases")[2]) :
                IsArr(Get(input, "aliases")[2][i][2])

\* C19: a malformed entry of `labels` or `descriptions` makes from_json
\* fail, and otherwise the decoded map has exactly one string per language
\* key; an alias without a string `value` is dropped without failing the
\* decode, and the other aliases of its language are kept in array order.
C19_TextMaps ==
    (call = "from_json" /\ InEntities = None /\ IsObj(input)) =>
        /\ TextMapFatal(Get(input, "labels"), result[2].labels)
        /\ TextMapFatal(Get(input, "descriptions"), result[2].descriptions)
        /\ TextDecodable => IsOk(result)
        /\ (IsOk(result) /\ IsObj(Get(input, "aliases"))) =>
              result[2].aliases
                  = {<<Get(input, "aliases")[2][i][1],
                       AliasStrings(Get(input, "aliases")[2][i][2][2])>> :
                        i \in 1..Len(Get(input, "aliases")[2])}

\* Aliases decoded with one of three dropped and the other two in order.
C19_Witness ==
    /\ call = "from_json" /\ IsOk(result)
    /\ Get(input, "aliases")
          = JObj(<< <<"en", JArr(<<ObjOf(<< <<"value", JStr("alias")>> >>),
                                   ObjOf(<< <<"value", JNull>> >>),
                                   ObjOf(<< <<"language", JStr("en")>>,
                                            <<"value", JStr("other")>> >>)>>)>> >>)
    /\ result[2].aliases = {<<"en", <<"alias", "other">>>>}
    /\ result[2].labels = {<<"en", "label">>}

\* The Rank C22 gives for each rank string.
RankOfString ==
    {<<"deprecated", "Deprecated">>, <<"normal", "Normal">>,
     <<"preferred", "Preferred">>}

\* The `rank` field is one of the three rank strings.
IsRank(rank) == \E p \in RankOfString : rank = JStr(p[1])

\* The `rank` fields of the claim nodes of the input, in order.
InRanks == [k \in 1..Len(InClaimNodes) |-> Get(InClaimNodes[k][2], "rank")]

\* C22: every claim that from_json returns has the rank its `rank` string
\* names, Deprecated included; when the claims of a document differ in
\* their ranks only, the decode keeps them all if every rank is one of the
\* three strings, and fails with UnknownRank at the first claim whose rank
\* is another string, with NoRank if that rank is absent or no string.
C22_RankDecoding ==
    (call = "from_json" /\ HasClaimArrays) =>
        /\ IsOk(result) =>
              \A k \in 1..Len(InClaimNodes) :
                  \E p \in RankOfString :
                      /\ InRanks[k] = JStr(p[1])
                      /\ result[2].claims[k][2].rank = p[2]
        /\ (input = RankDocument(InRanks)) =>
              IF \A k \in 1..Len(InRanks) : IsRank(InRanks[k])
                  THEN IsOk(result) /\ Len(result[2].claims) = Len(InRanks)
              ELSE LET k == CHOOSE i \in 1..Len(InRanks) :
                                /\ ~IsRank(InRanks[i])
                                /\ \A j \in 1..(i - 1) : IsRank(InRanks[j])
                   IN  result = Err(IF IsStr(InRanks[k]) THEN "UnknownRank"
                                    ELSE "NoRank")

\* A deprecated and a preferred claim, both kept.
C22_Witness ==
    /\ call = "from_json" /\ IsOk(result)
    /\ input = RankDocument(<<JStr("deprecated"), JStr("preferred")>>)
    /\ Len(result[2].claims) = 2
    /\ result[2].claims[1][2].rank = "Deprecated"
    /\ result[2].claims[2][2].rank = "Preferred"

\* What one step of the claim assembly gives for a claim node: a value or
\* the step's error.
StepResult(step, node) ==
    CASE step = "rank" ->
             IF ~IsStr(Get(node, "rank")) THEN Err("NoRank")
             ELSE RankFromStr(Get(node, "rank")[2])
      [] step = "mainsnak" ->
             IF Get(node, "mainsnak") = None THEN Err("MissingMainsnak")
             ELSE parse_snak(Get(node, "mainsnak"))
      [] step = "qualifiers" -> Qualifiers(node)
      [] step = "references" -> References(node)
      [] step = "id" ->
             IF ~IsStr(Get(node, "id")) THEN Err("NoClaimId")
             ELSE Ok(Get(node, "id")[2])

\* from_json of a document of one claim node returns the failure of the
\* first step, in the given order, that fails for the node.
FailsAtFirstOf(order) ==
    (call = "from_json" /\ HasOneClaim
        /\ IsOk(IdFromStr("Pid", InClaimNodes[1][1]))) =>
        LET failing == {i \in 1..Len(order) :
                           ~IsOk(StepResult(order[i], OnlyClaimNode))}
        IN  failing # {} =>
                result = StepResult(order[CHOOSE i \in failing :
                                              \A j \in failing : i <= j],
                                    OnlyClaimNode)

\* C23 as stated: the steps in the order rank, mainsnak, qualifiers,
\* references, claim id.
C23_AsStated ==
    FailsAtFirstOf(<<"rank", "mainsnak", "qualifiers", "references", "id">>)

\* C23: when a claim node has fatal defects in more than one step, the
\* error from_json returns is the one of the earliest failing step in the
\* order references, qualifiers, claim id, rank, mainsnak.
C23_StepOrder ==
    FailsAtFirstOf(<<"references", "qualifiers", "id", "rank", "mainsnak">>)

\* A claim with an unknown rank and a reference group without hash fails
\* with NoHash.
C23_Witness ==
    /\ call = "from_json" /\ HasOneClaim
    /\ Get(OnlyClaimNode, "rank") = JStr("other")
    /\ StepResult("references", OnlyClaimNode) = Err("NoHash")
    /\ result = Err("NoHash")

(***************************************************************************)
(* Claims about ClaimValue::get_prop_from_snak, checked under SpecLenient. *)
(***************************************************************************)
\* An object from property ids to arrays of snaks, none of which makes
\* parse_snak abort.
IsSnakObject(v) ==
    /\ IsObj(v)
    /\ \A i \in 1..Len(v[2]) :
          /\ IsOk(IdFromStr("Pid", v[2][i][1]))
          /\ IsArr(v[2][i][2])
          /\ \A j \in 1..Len(v[2][i][2][2]) :
                parse_snak(v[2][i][2][2][j]) # Panic

\* The claim node of the input has the form the claim is about: a rank
\* "normal" or "preferred", a mainsnak that decodes, a string id unless
\* skip_id, no qualifiers or an object of snaks, and a `references` array
\* of groups with a `snaks` object and a `hash` string.
LenientClaimForm ==
    LET claim == input[1]
        references == Get(claim, "references")
    IN  /\ Get(claim, "rank") \in {JStr("normal"), JStr("preferred")}
        /\ IsOk(parse_snak(take_prop("mainsnak", claim)))
        /\ input[2] \/ IsStr(Get(claim, "id"))
        /\ Get(claim, "qualifiers") = None
              \/ IsSnakObject(Get(claim, "qualifiers"))
        /\ IsArr(references)
        /\ \A g \in 1..Len(references[2]) :
              /\ IsSnakObject(Get(references[2][g], "snaks"))
              /\ IsStr(Get(references[2][g], "hash"))

\* C25: for a claim node of that form get_prop_from_snak returns a claim
\* whose references list has one ReferenceGroup per group of the
\* `references` array, with that group's hash (and an empty id when
\* skip_id); for a rank "deprecated" or an unknown rank it returns nothing.
C25_LenientClaim ==
    call = "get_prop_from_snak" =>
        LET claim == input[1]
            groups == Get(claim, "references")[2]
        IN  /\ (IsStr(Get(claim, "rank"))
                   /\ Get(claim, "rank") \notin {JStr("normal"), JStr("preferred")})
                  => result = None
            /\ LenientClaimForm =>
                  /\ result[1] = "Some"
                  /\ Len(result[2].references) = Len(groups)
                  /\ \A g \in 1..Len(groups) :
                        result[2].references[g].hash = Get(groups[g], "hash")[2]
                  /\ input[2] => result[2].id = ""
====
